---- MODULE Spec2Model ----
(***************************************************************************)
(* The in-memory product store of the storefront: the collection route     *)
(* (GET and POST /api/Product) and the item route (PUT and DELETE          *)
(* /api/Product/[id]), both working on the array global.globalProducts.    *)
(*                                                                         *)
(* JavaScript runs one handler at a time and switches handlers only at an  *)
(* await.  Every action below is one synchronous segment of a handler,     *)
(* from one await (or the handler's entry) to the next await or return.    *)
(* Handlers suspended at an await are kept in the bag pending.             *)
(*                                                                         *)
(* A segment is a function of the state it finds and of the request: its   *)
(* Outcome is the state it leaves and the response it sends.  Responses    *)
(* leave the process and are not part of its state.                        *)
(*                                                                         *)
(* Timestamps are milliseconds of a wall clock that does not run backwards;*)
(* every new Date() reads the clock, which may have advanced since the     *)
(* previous read.  Prices are in hundredths (29.99 is 2999).               *)
(***************************************************************************)
EXTENDS Integers, Sequences, FiniteSets, Bags, TLC

\* Bounds of the model.
MaxInFlight == 3
MaxNextId == 5
MaxTime == 1
MaxRequests == 2
MaxOrders == 3
MaxShown == 2
MaxItems == 2

VARIABLES
    now,             \* the wall clock
    heap,            \* the array objects allocated so far, by reference 1..Len(heap)
    globalProducts,  \* global.globalProducts: a reference, 0 when undefined
    nextProductId,   \* global.nextProductId, 0 when undefined
    listLoaded,      \* the collection route module has been evaluated
    listProducts,    \* its const products: a reference
    nextId,          \* its let nextId
    itemLoaded,      \* the item route module has been evaluated
    itemProducts,    \* its let products: a reference
    pending,         \* bag of handlers suspended at an await
    created,         \* history: the ids returned by successful Creates, in order
    deleted,         \* history: the ids removed by successful Deletes
    audit,           \* which races the history below records: a specification's choice
    races,           \* history: the races between handlers that have been run
    probe,           \* one request sent to a handler that runs alone
    answer,          \* what that handler left and answered
    user,            \* AuthProvider: the user state
    token,           \* AuthProvider: the token state
    authLoading,     \* AuthProvider: its isLoading state
    localStorage,    \* the items auth_token and auth_user of localStorage
    cart,            \* CartProvider: the cart state
    isLoading,       \* CartProvider: its isLoading state
    hasInitialized,  \* CartProvider: the hasInitialized state
    effectDue,       \* CartProvider: a dependency of its effect changed in a commit
    requests,        \* bag of the fetch calls awaiting their response
    order,           \* CheckoutPage: the order state
    clientSecret,    \* CheckoutPage: the clientSecret state
    checkoutLoading, \* CheckoutPage: its isLoading state
    stripe,          \* CheckoutPage: the stripe state
    toast,           \* CheckoutPage: the toast state
    checkoutStep,    \* CheckoutPage: where the page and handleProceedToPayment stand
    placed,          \* history: the orders POST /api/Order/place has answered OK with
    widgetReady,     \* CheckoutForm: useStripe() and useElements() are not null
    formLoading,     \* CheckoutForm: its isLoading state
    formMessage,     \* CheckoutForm: the message state
    confirming,      \* CheckoutForm: handleSubmit is at await stripe.confirmPayment
    callbacks,       \* history: the callbacks the last submission has invoked
    redirectDue,     \* CheckoutPage: the timer of handlePaymentSuccess is set
    orders,          \* OrdersPage: the orders state, each order by its status
    changes,         \* the service: the last status change it accepted for each order
    summary          \* what getTotalItems() and getTotalPrice() last returned to a page

storeVars == <<now, heap, globalProducts, nextProductId, listLoaded, listProducts,
               nextId, itemLoaded, itemProducts, pending, created, deleted, audit, races>>

\* A single request and its answer
probeVars == <<probe, answer>>

\* The browser: AuthProvider, CartProvider and their requests
authVars == <<user, token, authLoading, localStorage>>

cartVars == <<cart, isLoading, hasInitialized, effectDue>>

clientVars == <<authVars, cartVars, requests>>

\* The checkout page and the payment form it renders
checkoutVars == <<order, clientSecret, checkoutLoading, stripe, toast, checkoutStep,
                  placed, redirectDue>>

formVars == <<widgetReady, formLoading, formMessage, confirming, callbacks>>

\* The orders page and the cart page
viewVars == <<orders, changes, summary>>

pageVars == <<checkoutVars, formVars, viewVars>>

\* What the product routes leave alone
otherVars == <<probeVars, clientVars, pageVars>>

vars == <<storeVars, otherVars>>

historyVars == <<created, deleted, audit, races>>

moduleVars == <<globalProducts, nextProductId, listLoaded, listProducts, nextId,
                itemLoaded, itemProducts>>

-----------------------------------------------------------------------------
(* JavaScript values of a JSON body *)

Undefined == [t |-> "undefined", s |-> "", n |-> 0]
Null == [t |-> "null", s |-> "", n |-> 0]
Str(str) == [t |-> "string", s |-> str, n |-> 0]
Num(k) == [t |-> "number", s |-> "", n |-> k]

\* ToBoolean: !v is ~Truthy(v)
Truthy(v) ==
    CASE v.t = "string" -> v.s # ""
      [] v.t = "number" -> v.n # 0
      [] OTHER -> FALSE

\* v.length > k: the length of a string; undefined (and the comparison false)
\* for a number
LengthExceeds(v, k) == v.t = "string" /\ Len(v.s) > k

\* a, kept whatever it is
OrItself(v) == v

\* a || undefined
OrUndefined(v) == IF Truthy(v) THEN v ELSE Undefined

\* the wall clock at a new Date()
ClockReads(t) == t..MaxTime

-----------------------------------------------------------------------------
(* Module initialisation *)

SeedProducts(t1, t2, t3, t4) ==
    << [id |-> 1,
        name |-> Str("Classic Cotton T-Shirt"),
        description |-> Str("A comfortable, breathable cotton t-shirt perfect for everyday wear."),
        price |-> Num(2999),
        image |-> Str("https://via.placeholder.com/300x300?text=T-Shirt"),
        createdAt |-> t1,
        updatedAt |-> t2],
       [id |-> 2,
        name |-> Str("Denim Jeans"),
        description |-> Str("Premium quality denim jeans with a modern fit."),
        price |-> Num(7999),
        image |-> Str("https://via.placeholder.com/300x300?text=Jeans"),
        createdAt |-> t3,
        updatedAt |-> t4] >>

FirstProductId == 3

\* if (!global.globalProducts) global.globalProducts = [seed, seed]
InitGlobalProducts ==
    IF globalProducts = 0
    THEN \E t1 \in ClockReads(now) : \E t2 \in ClockReads(t1) :
         \E t3 \in ClockReads(t2) : \E t4 \in ClockReads(t3) :
            /\ heap' = Append(heap, SeedProducts(t1, t2, t3, t4))
            /\ globalProducts' = Len(heap) + 1
            /\ now' = t4
    ELSE UNCHANGED <<heap, globalProducts, now>>

\* Evaluation of the collection route module
LoadListRoute ==
    /\ ~listLoaded
    /\ InitGlobalProducts
    /\ nextProductId' = IF nextProductId = 0 THEN FirstProductId ELSE nextProductId
    /\ listProducts' = globalProducts'
    /\ nextId' = nextProductId'
    /\ listLoaded' = TRUE
    /\ UNCHANGED <<otherVars, itemLoaded, itemProducts, pending, historyVars>>

\* products = [...global.globalProducts]: the module takes its own copy
LoadItemRouteCopy ==
    /\ ~itemLoaded
    /\ IF globalProducts = 0
       THEN /\ heap' = heap \o <<SeedProducts(now, now, now, now),
                                  SeedProducts(now, now, now, now)>>
            /\ globalProducts' = Len(heap) + 1
            /\ itemProducts' = Len(heap) + 2
       ELSE /\ heap' = Append(heap, heap[globalProducts])
            /\ itemProducts' = Len(heap) + 1
            /\ UNCHANGED globalProducts
    /\ itemLoaded' = TRUE
    /\ UNCHANGED <<otherVars, now, nextProductId, listLoaded, listProducts, nextId, pending,
                   historyVars>>

\* Evaluation of the item route module
LoadItemRoute ==
    /\ ~itemLoaded
    /\ InitGlobalProducts
    /\ itemProducts' = globalProducts'
    /\ itemLoaded' = TRUE
    /\ UNCHANGED <<otherVars, nextProductId, listLoaded, listProducts, nextId, pending,
                   historyVars>>

-----------------------------------------------------------------------------
(* Responses and suspended handlers *)

\* NextResponse.json(...): the status, { error }, { message } and the products
\* of the body (the array of GET, the one product of POST, PUT and DELETE)
Response(status, error, message, body) ==
    [status |-> status, error |-> error, message |-> message, body |-> body]

Handler(op, pc, id) == [op |-> op, pc |-> pc, id |-> id]

Suspend(h) == pending (+) SetToBag({h})
Resume(h) == pending (-) SetToBag({h})

\* Nothing raced yet.  Of Creates: older, the POST handlers suspended since
\* before the latest Create; overlapped, the ids of the Creates whose handler
\* was suspended while the Create before it took effect; intoEmpty, the ids
\* created in an empty collection.  Of Updates: removed, the id the latest
\* Delete removed; waiting, the PUT handlers that were suspended at await
\* request.json() when it did; done, the ids among them updated since, each
\* with the body of its latest Update.
\* Handlers of one kind are taken to resume in their order of arrival.
NoRaces ==
    [older |-> 0, overlapped |-> {}, intoEmpty |-> {},
     removed |-> 0, waiting |-> EmptyBag, done |-> <<>>]

StartState ==
    /\ now = 0
    /\ heap = <<>>
    /\ globalProducts = 0
    /\ nextProductId = 0
    /\ listLoaded = FALSE
    /\ listProducts = 0
    /\ nextId = 0
    /\ itemLoaded = FALSE
    /\ itemProducts = 0
    /\ pending = EmptyBag
    /\ created = <<>>
    /\ deleted = {}
    /\ races = NoRaces

\* No single request is probed
NoProbe == [op |-> "none"]

ProbeIdle == probe = NoProbe /\ answer = NoProbe

\* localStorage without the two items
NoSession == [auth_token |-> Null, auth_user |-> Null]

\* useState({ isVisible: false, message: '', type: 'success' })
NoToast == [isVisible |-> FALSE, message |-> "", type |-> "success"]

\* The checkout page is not open
CheckoutClosed ==
    /\ order = Null
    /\ clientSecret = ""
    /\ checkoutLoading = FALSE
    /\ stripe = Null
    /\ toast = NoToast
    /\ checkoutStep = "closed"
    /\ placed = <<>>
    /\ redirectDue = FALSE
    /\ widgetReady = FALSE
    /\ formLoading = FALSE
    /\ formMessage = ""
    /\ confirming = FALSE
    /\ callbacks = <<>>

\* Neither the orders page nor the cart page is open
ViewsClosed ==
    /\ orders = <<>>
    /\ changes = <<>>
    /\ summary = Null

\* The providers as constructed, their mount effects not run, no page open
Unmounted ==
    /\ CheckoutClosed
    /\ ViewsClosed
    /\ user = Null
    /\ token = Null
    /\ authLoading = TRUE
    /\ cart = Null
    /\ isLoading = FALSE
    /\ hasInitialized = FALSE
    /\ effectDue = FALSE
    /\ requests = EmptyBag

\* No browser has the page open
ClientIdle == Unmounted /\ localStorage = NoSession

Init == StartState /\ audit = "none" /\ ProbeIdle /\ ClientIdle

\* The same process, with the races between Creates recorded
InitCreateRaces == StartState /\ audit = "creates" /\ ProbeIdle /\ ClientIdle

\* The same process, with the races between Updates and a Delete recorded
InitUpdateRaces == StartState /\ audit = "updates" /\ ProbeIdle /\ ClientIdle

-----------------------------------------------------------------------------
(* Request inputs *)

BodyA == [name |-> Str("A"), description |-> Str("B"), price |-> Num(1000),
          image |-> Undefined]
BodyB == [name |-> Str("Hoodie"), description |-> Str("Warm"), price |-> Num(4500),
          image |-> Str("https://img.example/hoodie.png")]
BodyEmptyImage == [BodyA EXCEPT !.image = Str("")]
BodyNoName == [BodyA EXCEPT !.name = Undefined]
BodyBadPrice == [BodyB EXCEPT !.price = Num(-500)]

Bodies == {BodyA, BodyB, BodyEmptyImage, BodyNoName, BodyBadPrice}

\* The [id] path segment, as its characters
IdParams == { <<"1">>, <<"2">>, <<"3">>, <<"x">>, <<"2", "x">> }

-----------------------------------------------------------------------------
(* parseInt(idParam): leading white space is skipped, then an optional sign,
   then, after 0x or 0X, the longest run of hexadecimal digits, and otherwise
   the longest run of decimal digits; NaN when there is no digit. *)

NaN == [nan |-> TRUE, n |-> 0]
Int32(k) == [nan |-> FALSE, n |-> k]

IsDigit(c) == c \in {"0", "1", "2", "3", "4", "5", "6", "7", "8", "9"}

DigitValue(c) ==
    CASE c = "0" -> 0 [] c = "1" -> 1 [] c = "2" -> 2 [] c = "3" -> 3 [] c = "4" -> 4
      [] c = "5" -> 5 [] c = "6" -> 6 [] c = "7" -> 7 [] c = "8" -> 8 [] c = "9" -> 9

RECURSIVE SkipSpace(_)
SkipSpace(s) == IF s # <<>> /\ Head(s) = " " THEN SkipSpace(Tail(s)) ELSE s

RECURSIVE DigitRun(_)
DigitRun(s) == IF s # <<>> /\ IsDigit(Head(s)) THEN <<Head(s)>> \o DigitRun(Tail(s)) ELSE <<>>

RECURSIVE Decimal(_)
Decimal(ds) == IF ds = <<>> THEN 0
               ELSE 10 * Decimal(SubSeq(ds, 1, Len(ds) - 1)) + DigitValue(ds[Len(ds)])

IsHexDigit(c) ==
    IsDigit(c) \/ c \in {"a", "b", "c", "d", "e", "f", "A", "B", "C", "D", "E", "F"}

HexDigitValue(c) ==
    CASE IsDigit(c) -> DigitValue(c)
      [] c \in {"a", "A"} -> 10 [] c \in {"b", "B"} -> 11 [] c \in {"c", "C"} -> 12
      [] c \in {"d", "D"} -> 13 [] c \in {"e", "E"} -> 14 [] c \in {"f", "F"} -> 15

RECURSIVE HexDigitRun(_)
HexDigitRun(s) ==
    IF s # <<>> /\ IsHexDigit(Head(s)) THEN <<Head(s)>> \o HexDigitRun(Tail(s)) ELSE <<>>

RECURSIVE Hexadecimal(_)
Hexadecimal(ds) ==
    IF ds = <<>> THEN 0
    ELSE 16 * Hexadecimal(SubSeq(ds, 1, Len(ds) - 1)) + HexDigitValue(ds[Len(ds)])

ParseInt(s) ==
    LET t == SkipSpace(s)
        signed == t # <<>> /\ Head(t) \in {"-", "+"}
        u == IF signed THEN Tail(t) ELSE t
        hex == Len(u) >= 2 /\ u[1] = "0" /\ u[2] \in {"x", "X"}
        ds == IF hex THEN HexDigitRun(Tail(Tail(u))) ELSE DigitRun(u)
        k == IF hex THEN Hexadecimal(ds) ELSE Decimal(ds)
    IN  IF ds = <<>> THEN NaN
        ELSE Int32(IF signed /\ Head(t) = "-" THEN 0 - k ELSE k)

IsNaN(v) == v.nan

-----------------------------------------------------------------------------
(* Array operations *)

\* The index taken to be id - 1, as it is while no record was ever deleted
FindIndexById(arr, id) == IF id \in 1..Len(arr) THEN id ELSE 0

\* products.findIndex(p => p.id === id), counted from 1; 0 is JavaScript's -1
FindIndex(arr, id) ==
    IF \E k \in 1..Len(arr) : arr[k].id = id
    THEN CHOOSE k \in 1..Len(arr) : arr[k].id = id /\ \A j \in 1..(k - 1) : arr[j].id # id
    ELSE 0

\* products[products.length - 1] = p in place of push
PushOverLast(arr, p) == IF arr = <<>> THEN <<p>> ELSE [arr EXCEPT ![Len(arr)] = p]

\* products.unshift(p) in place of push
Unshift(arr, p) == <<p>> \o arr

\* products.push(p)
Push(arr, p) == Append(arr, p)

\* products.slice(index, 1): nothing is removed
SliceOnly(arr, index) == arr

\* products.splice(index): everything from index on is removed
SpliceToEnd(arr, index) == SubSeq(arr, 1, index - 1)

\* products.splice(index, 1): the array that remains
Splice(arr, index) == SubSeq(arr, 1, index - 1) \o SubSeq(arr, index + 1, Len(arr))

\* The record taken out and pushed at the end
SetAtEnd(arr, index, p) == Append(Splice(arr, index), p)

\* products[index] = p
SetAt(arr, index, p) == [arr EXCEPT ![index] = p]

-----------------------------------------------------------------------------
(* GET /api/Product *)

GetOutcome(products) == Response(200, "", "", products)

\* GET has no await: it answers from the array as it is
GET ==
    /\ listLoaded
    /\ UNCHANGED vars

-----------------------------------------------------------------------------
(* POST /api/Product *)

\* The validation without the check of the price
PostValidateNoPrice(body) ==
    IF ~Truthy(body.name) \/ ~Truthy(body.description) \/ ~Truthy(body.price)
    THEN "Name, description, and price are required"
    ELSE IF LengthExceeds(body.name, 100)
    THEN "Name must be 100 characters or less"
    ELSE IF LengthExceeds(body.description, 500)
    THEN "Description must be 500 characters or less"
    ELSE ""

PostValidate(body) ==
    IF ~Truthy(body.name) \/ ~Truthy(body.description) \/ ~Truthy(body.price)
    THEN "Name, description, and price are required"
    ELSE IF body.price.t # "number" \/ body.price.n <= 0
    THEN "Price must be a positive number"
    ELSE IF LengthExceeds(body.name, 100)
    THEN "Name must be 100 characters or less"
    ELSE IF LengthExceeds(body.description, 500)
    THEN "Description must be 500 characters or less"
    ELSE ""

\* nextId read without the increment
PostIncrementNone(n) == n

\* nextId incremented twice
PostIncrementTwice(n) == n + 2

\* nextId++ leaves this in nextId
PostIncrement(n) == n + 1

NewProduct(id, body, t1, t2) ==
    [id |-> id,
     name |-> body.name,
     description |-> body.description,
     price |-> body.price,
     image |-> OrUndefined(body.image),
     createdAt |-> t1,
     updatedAt |-> t2]

\* The segment after await request.json(): the array and nextId it leaves,
\* and its response; t1 and t2 are its two readings of the clock
PostOutcome(products, id, body, t1, t2) ==
    LET error == PostValidate(body)
        newProduct == NewProduct(id, body, t1, t2)
    IN  IF error # ""
        THEN [products |-> products, nextId |-> id,
              response |-> Response(400, error, "", <<>>)]
        ELSE [products |-> Push(products, newProduct), nextId |-> PostIncrement(id),
              response |-> Response(201, "", "", <<newProduct>>)]

\* The catch block
PostFailure == Response(500, "Failed to create product", "", <<>>)

\* The handler's entry, up to await request.json()
PostArrive ==
    /\ listLoaded
    /\ BagCardinality(pending) < MaxInFlight
    /\ pending' = Suspend(Handler("POST", "json", 0))
    /\ UNCHANGED <<otherVars, now, heap, moduleVars, historyVars>>

\* History: a POST handler resumed and has answered; created tells whether
\* it created the product id
PostRaced(ok, id) ==
    LET suspended == CopiesIn(Handler("POST", "json", 0), pending')
    IN  IF ok
        THEN [races EXCEPT !.older = suspended,
                           !.overlapped = IF races.older > 0 THEN @ \cup {id} ELSE @,
                           !.intoEmpty = IF heap[listProducts] = <<>>
                                         THEN @ \cup {id} ELSE @]
        ELSE [races EXCEPT !.older = IF @ > 0 THEN @ - 1 ELSE 0]

\* request.json() resolved with body
PostJsonAt(body, t1, t2) ==
    /\ BagIn(Handler("POST", "json", 0), pending)
    /\ pending' = Resume(Handler("POST", "json", 0))
    /\ LET out == PostOutcome(heap[listProducts], nextId, body, t1, t2)
           ok == out.response.status = 201
       IN  /\ ok => nextId < MaxNextId
           /\ heap' = [heap EXCEPT ![listProducts] = out.products]
           /\ nextId' = out.nextId
           /\ nextProductId' = IF ok THEN out.nextId ELSE nextProductId
           /\ now' = IF ok THEN t2 ELSE now
           /\ created' = IF ok THEN Append(created, out.response.body[1].id) ELSE created
           /\ races' = IF audit = "creates" THEN PostRaced(ok, out.nextId - 1) ELSE races
    /\ UNCHANGED <<otherVars, globalProducts, listLoaded, listProducts, itemLoaded, itemProducts,
                   deleted, audit>>

PostJson(body) ==
    \E t1 \in ClockReads(now) : \E t2 \in ClockReads(t1) : PostJsonAt(body, t1, t2)

\* The catch block reached after nextId++
PostJsonFailsAfterIncrement ==
    /\ BagIn(Handler("POST", "json", 0), pending)
    /\ pending' = Resume(Handler("POST", "json", 0))
    /\ races' = IF audit = "creates" THEN PostRaced(FALSE, 0) ELSE races
    /\ nextId < MaxNextId
    /\ nextId' = PostIncrement(nextId)
    /\ UNCHANGED <<otherVars, now, heap, globalProducts, nextProductId, listLoaded,
                   listProducts, itemLoaded, itemProducts, created, deleted, audit>>

\* request.json() rejected, or resolved with null: the catch block answers
PostJsonFails ==
    /\ BagIn(Handler("POST", "json", 0), pending)
    /\ pending' = Resume(Handler("POST", "json", 0))
    /\ races' = IF audit = "creates" THEN PostRaced(FALSE, 0) ELSE races
    /\ UNCHANGED <<otherVars, now, heap, moduleVars, created, deleted, audit>>

-----------------------------------------------------------------------------
(* PUT /api/Product/[id] *)

PutValidate(body) ==
    IF ~Truthy(body.name) \/ ~Truthy(body.description) \/ ~Truthy(body.price)
    THEN "Name, description, and price are required"
    ELSE IF body.price.t # "number" \/ body.price.n <= 0
    THEN "Price must be a positive number"
    ELSE IF LengthExceeds(body.name, 100)
    THEN "Name must be 100 characters or less"
    ELSE IF LengthExceeds(body.description, 500)
    THEN "Description must be 500 characters or less"
    ELSE ""

\* The record built anew, createdAt included
UpdatedProductAnew(product, body, t) ==
    [id |-> product.id,
     name |-> body.name,
     description |-> body.description,
     price |-> body.price,
     image |-> OrUndefined(body.image),
     createdAt |-> t,
     updatedAt |-> t]

\* { ...products[productIndex], name, description, price, image, updatedAt }
UpdatedProduct(product, body, t) ==
    [product EXCEPT !.name = body.name,
                    !.description = body.description,
                    !.price = body.price,
                    !.image = OrUndefined(body.image),
                    !.updatedAt = t]

InvalidProductId == Response(400, "Invalid product ID", "", <<>>)

ProductNotFound == Response(404, "Product not found", "", <<>>)

\* The segment after await request.json(): the array it leaves and its
\* response; id is the parsed path segment, t its reading of the clock
PutOutcome(products, id, body, t) ==
    LET error == PutValidate(body)
        productIndex == FindIndex(products, id)
        updatedProduct == UpdatedProduct(products[productIndex], body, t)
    IN  IF error # ""
        THEN [products |-> products, response |-> Response(400, error, "", <<>>)]
        ELSE IF productIndex = 0
        THEN [products |-> products, response |-> ProductNotFound]
        ELSE [products |-> SetAt(products, productIndex, updatedProduct),
              response |-> Response(200, "", "", <<updatedProduct>>)]

\* The catch block
PutFailure == Response(500, "Failed to update product", "", <<>>)

\* The handler's entry, up to await params
PutArrive ==
    /\ itemLoaded
    /\ BagCardinality(pending) < MaxInFlight
    /\ pending' = Suspend(Handler("PUT", "params", 0))
    /\ UNCHANGED <<otherVars, now, heap, moduleVars, historyVars>>

\* params resolved: parseInt, then the answer 400 or await request.json()
PutParams(idParam) ==
    /\ BagIn(Handler("PUT", "params", 0), pending)
    /\ LET id == ParseInt(idParam) IN
       pending' = IF IsNaN(id)
                  THEN Resume(Handler("PUT", "params", 0))
                  ELSE Resume(Handler("PUT", "params", 0))
                         (+) SetToBag({Handler("PUT", "json", id.n)})
    /\ UNCHANGED <<otherVars, now, heap, moduleVars, historyVars>>

\* History: the PUT handler for id resumed with body and has answered; ok
\* tells whether it updated the product
PutRaced(ok, id, body) ==
    LET h == Handler("PUT", "json", id)
        raced == BagIn(h, races.waiting)
    IN  [races EXCEPT !.waiting = IF raced THEN @ (-) SetToBag({h}) ELSE @,
                      !.done = IF ok /\ (raced \/ id \in DOMAIN @)
                               THEN [i \in DOMAIN @ \cup {id} |->
                                        IF i = id THEN body ELSE @[i]]
                               ELSE @]

\* request.json() resolved with body
PutJsonAt(id, body, t) ==
    /\ BagIn(Handler("PUT", "json", id), pending)
    /\ pending' = Resume(Handler("PUT", "json", id))
    /\ LET out == PutOutcome(heap[itemProducts], id, body, t)
           ok == out.response.status = 200
       IN  /\ heap' = [heap EXCEPT ![itemProducts] = out.products]
           /\ globalProducts' = IF ok THEN itemProducts ELSE globalProducts
           /\ now' = IF ok THEN t ELSE now
           /\ races' = IF audit = "updates" THEN PutRaced(ok, id, body) ELSE races
    /\ UNCHANGED <<otherVars, nextProductId, listLoaded, listProducts, nextId, itemLoaded,
                   itemProducts, created, deleted, audit>>

PutJson(id, body) == \E t \in ClockReads(now) : PutJsonAt(id, body, t)

\* request.json() rejected, or resolved with null: the catch block answers
PutJsonFails(id) ==
    /\ BagIn(Handler("PUT", "json", id), pending)
    /\ pending' = Resume(Handler("PUT", "json", id))
    /\ races' = IF audit = "updates" THEN PutRaced(FALSE, id, BodyA) ELSE races
    /\ UNCHANGED <<otherVars, now, heap, moduleVars, created, deleted, audit>>

-----------------------------------------------------------------------------
(* DELETE /api/Product/[id] *)

\* The segment after await params: the array it leaves and its response
DeleteOutcome(products, idParam) ==
    LET id == ParseInt(idParam)
        productIndex == FindIndex(products, id.n)
        deletedProduct == products[productIndex]
    IN  IF IsNaN(id)
        THEN [products |-> products, response |-> InvalidProductId]
        ELSE IF productIndex = 0
        THEN [products |-> products, response |-> ProductNotFound]
        ELSE [products |-> Splice(products, productIndex),
              response |-> Response(200, "", "Product deleted successfully",
                                    <<deletedProduct>>)]

\* The catch block
DeleteFailure == Response(500, "Failed to delete product", "", <<>>)

\* The handler's entry, up to await params
DeleteArrive ==
    /\ itemLoaded
    /\ BagCardinality(pending) < MaxInFlight
    /\ pending' = Suspend(Handler("DELETE", "params", 0))
    /\ UNCHANGED <<otherVars, now, heap, moduleVars, historyVars>>

\* History: a DELETE handler removed the product id while these PUT handlers
\* were suspended at await request.json()
DeleteRaced(id) ==
    LET waiting == {h \in BagToSet(pending') : h.op = "PUT" /\ h.pc = "json"}
    IN  [races EXCEPT !.removed = id,
                      !.waiting = [h \in waiting |-> pending'[h]],
                      !.done = <<>>]

\* params resolved
DeleteParams(idParam) ==
    /\ BagIn(Handler("DELETE", "params", 0), pending)
    /\ pending' = Resume(Handler("DELETE", "params", 0))
    /\ LET out == DeleteOutcome(heap[itemProducts], idParam)
           ok == out.response.status = 200
       IN  /\ heap' = [heap EXCEPT ![itemProducts] = out.products]
           /\ globalProducts' = IF ok THEN itemProducts ELSE globalProducts
           /\ deleted' = IF ok THEN deleted \cup {out.response.body[1].id} ELSE deleted
           /\ races' = IF ok /\ audit = "updates"
                       THEN DeleteRaced(out.response.body[1].id)
                       ELSE races
    /\ UNCHANGED <<otherVars, now, nextProductId, listLoaded, listProducts, nextId, itemLoaded,
                   itemProducts, created, audit>>

-----------------------------------------------------------------------------

\* The ids that handlers suspended at await request.json() have parsed
PendingIds == {h.id : h \in BagToSet(pending)}

Next ==
    \/ LoadListRoute
    \/ LoadItemRoute
    \/ GET
    \/ PostArrive
    \/ \E body \in Bodies : PostJson(body)
    \/ PostJsonFails
    \/ PutArrive
    \/ \E idParam \in IdParams : PutParams(idParam)
    \/ \E id \in PendingIds : \E body \in Bodies : PutJson(id, body)
    \/ \E id \in PendingIds : PutJsonFails(id)
    \/ DeleteArrive
    \/ \E idParam \in IdParams : DeleteParams(idParam)

Spec == Init /\ [][Next]_vars

SpecCreateRaces == InitCreateRaces /\ [][Next]_vars

SpecUpdateRaces == InitUpdateRaces /\ [][Next]_vars

-----------------------------------------------------------------------------
(* One handler running alone: a single request, of any JSON body and any path
   segment, answered on the collection as module initialisation leaves it *)

RECURSIVE Repeat(_, _)
Repeat(c, n) ==
    IF n = 0 THEN ""
    ELSE IF n % 2 = 0 THEN LET half == Repeat(c, n \div 2) IN half \o half
    ELSE c \o Repeat(c, n - 1)

ProbeNames ==
    {Undefined, Str(""), Str("A"), Str(Repeat("n", 100)), Str(Repeat("n", 101)), Num(12345)}

ProbeDescriptions ==
    {Undefined, Str(""), Str("B"), Str(Repeat("d", 500)), Str(Repeat("d", 501))}

ProbePrices == {Undefined, Num(0), Num(-500), Num(1000), Str("10")}

ProbeImages == {Undefined, Null, Str(""), Str("https://img.example/hoodie.png")}

ProbeBodies ==
    [name : ProbeNames, description : ProbeDescriptions, price : ProbePrices,
     image : ProbeImages]

ProbeIdParams ==
    { <<"1">>, <<"2">>, <<"7">>, <<"1", "0">>, <<"-", "1">>, <<>>, <<"x">>, <<"2", "x">>,
      <<"1", ".", "5">>, <<" ", "1">>, <<"0", "x", "2">> }

ProbeRequests ==
    {[op |-> "POST", idParam |-> <<>>, body |-> b] : b \in ProbeBodies}
    \cup {[op |-> "PUT", idParam |-> i, body |-> b] : i \in ProbeIdParams, b \in ProbeBodies}
    \cup {[op |-> "DELETE", idParam |-> i, body |-> BodyA] : i \in ProbeIdParams}

\* global.globalProducts after module initialisation
ProbeProducts == SeedProducts(0, 0, 0, 0)

\* PUT from its entry to its return, nothing running between its two awaits
PutRequestOutcome(products, idParam, body, t) ==
    LET id == ParseInt(idParam)
    IN  IF IsNaN(id)
        THEN [products |-> products, response |-> InvalidProductId]
        ELSE PutOutcome(products, id.n, body, t)

InitProbe ==
    /\ StartState
    /\ audit = "none"
    /\ probe \in ProbeRequests
    /\ answer = NoProbe
    /\ ClientIdle

AnswerPost ==
    /\ probe.op = "POST"
    /\ answer = NoProbe
    /\ answer' = PostOutcome(ProbeProducts, FirstProductId, probe.body, 0, 0)
    /\ UNCHANGED <<storeVars, probe, clientVars, pageVars>>

AnswerPut ==
    /\ probe.op = "PUT"
    /\ answer = NoProbe
    /\ answer' = PutRequestOutcome(ProbeProducts, probe.idParam, probe.body, 0)
    /\ UNCHANGED <<storeVars, probe, clientVars, pageVars>>

AnswerDelete ==
    /\ probe.op = "DELETE"
    /\ answer = NoProbe
    /\ answer' = DeleteOutcome(ProbeProducts, probe.idParam)
    /\ UNCHANGED <<storeVars, probe, clientVars, pageVars>>

NextProbe == AnswerPost \/ AnswerPut \/ AnswerDelete

SpecProbe == InitProbe /\ [][NextProbe]_vars

-----------------------------------------------------------------------------
(* The browser: AuthProvider and CartProvider.  An action is one synchronous
   segment of a handler or an effect, with the React commit that follows it *)

\* isAuthenticated: !!token
isAuthenticated == Truthy(token)

\* const userData = { userId: data.userId, email: data.email }
UserData(userId) == [userId |-> userId]

\* JSON.stringify(userData)
Stringify(userData) ==
    IF userData.userId = 1 THEN "{\"userId\":1}" ELSE "{\"userId\":2}"

\* JSON.parse(text): the value, or a SyntaxError thrown
JsonParse(text) ==
    IF \E userId \in {1, 2} : text = Stringify(UserData(userId))
    THEN [ok |-> TRUE,
          value |-> UserData(CHOOSE userId \in {1, 2} : text = Stringify(UserData(userId)))]
    ELSE IF text = "null"
    THEN [ok |-> TRUE, value |-> Null]
    ELSE [ok |-> FALSE, value |-> Null]

\* The bodies of the OK responses of /api/Auth/login and /api/Auth/register
AuthData == {[token |-> Str("t1"), userId |-> 1], [token |-> Str("t2"), userId |-> 2]}

Tokens == {data.token : data \in AuthData}

\* What localStorage can hold when the page is opened: nothing, a session, a
\* session whose user does not parse, one whose user parses to null, a token
\* alone
StoredSessions ==
    {NoSession,
     [auth_token |-> Str("t1"), auth_user |-> Str(Stringify(UserData(1)))],
     [auth_token |-> Str("t1"), auth_user |-> Str("{\"userId\":")],
     [auth_token |-> Str("t1"), auth_user |-> Str("null")],
     [auth_token |-> Str("t1"), auth_user |-> Null]}

\* The carts the cart API can answer a request carrying this token with
CartItem(quantity) == [productId |-> 1, price |-> 1000, quantity |-> quantity]

ItemLists == {<<>>, <<CartItem(2)>>}

CartData(t) ==
    LET userId == (CHOOSE data \in AuthData : data.token = t).userId
    IN  {[userId |-> userId, items |-> items] : items \in ItemLists}

\* A fetch awaiting its response; kind is the function that called it
Request(kind, t) == [kind |-> kind, token |-> t]

Sent(r) == requests (+) SetToBag({r})

Answered(r) == requests (-) SetToBag({r})

CanSend == BagCardinality(requests) < MaxRequests

\* [isAuthenticated, token, hasInitialized, fetchCart]: fetchCart changes with
\* its own dependencies, isAuthenticated and token
EffectDeps == <<isAuthenticated, token, hasInitialized>>

\* The commit of the state set in this segment: the CartProvider effect is
\* scheduled if one of its dependencies changed
Commit == effectDue' = (effectDue \/ EffectDeps' # EffectDeps)

InitClient ==
    /\ StartState
    /\ audit = "none"
    /\ ProbeIdle
    /\ Unmounted
    /\ localStorage \in StoredSessions

\* The effects of the first commit: CartProvider's finds no token and sets
\* what is already set; AuthProvider's reads localStorage
Mount ==
    /\ authLoading
    /\ LET storedToken == localStorage.auth_token
           storedUser == localStorage.auth_user
           parsedUser == JsonParse(storedUser.s)
       IN  IF Truthy(storedToken) /\ Truthy(storedUser)
           THEN IF parsedUser.ok
                THEN /\ token' = storedToken
                     /\ user' = parsedUser.value
                     /\ UNCHANGED localStorage
                ELSE /\ localStorage' = NoSession
                     /\ UNCHANGED <<token, user>>
           ELSE UNCHANGED <<token, user, localStorage>>
    /\ authLoading' = FALSE
    /\ UNCHANGED <<storeVars, probeVars, pageVars, cart, isLoading, hasInitialized, requests>>
    /\ Commit

\* The events of the page are handled once the effects of the last commit ran
Interactive == ~authLoading /\ ~effectDue

\* login and register, up to await fetch
AuthCall(kind) ==
    /\ Interactive
    /\ CanSend
    /\ requests' = Sent(Request(kind, Null))
    /\ UNCHANGED <<storeVars, probeVars, pageVars, authVars, cartVars>>

\* response.ok
AuthResponseOk(kind, data) ==
    /\ BagIn(Request(kind, Null), requests)
    /\ requests' = Answered(Request(kind, Null))
    /\ token' = data.token
    /\ user' = UserData(data.userId)
    /\ localStorage' = [auth_token |-> data.token,
                        auth_user |-> Str(Stringify(UserData(data.userId)))]
    /\ UNCHANGED <<storeVars, probeVars, pageVars, authLoading, cart, isLoading, hasInitialized>>
    /\ Commit

\* A response that is not OK, or fetch rejected
AuthResponseFails(kind) ==
    /\ BagIn(Request(kind, Null), requests)
    /\ requests' = Answered(Request(kind, Null))
    /\ UNCHANGED <<storeVars, probeVars, pageVars, authVars, cartVars>>

logout ==
    /\ Interactive
    /\ token' = Null
    /\ user' = Null
    /\ localStorage' = NoSession
    /\ UNCHANGED <<storeVars, probeVars, pageVars, authLoading, cart, isLoading, hasInitialized,
                   requests>>
    /\ Commit

\* fetchCart, up to await fetch, called by a page
fetchCart ==
    /\ Interactive
    /\ IF ~isAuthenticated \/ ~Truthy(token)
       THEN UNCHANGED <<isLoading, requests>>
       ELSE /\ CanSend
            /\ isLoading' = TRUE
            /\ requests' = Sent(Request("fetchCart", token))
    /\ UNCHANGED <<storeVars, probeVars, pageVars, authVars, cart, hasInitialized, effectDue>>

\* response.ok: setCart(data), then the finally block
FetchCartOk(t, data) ==
    /\ BagIn(Request("fetchCart", t), requests)
    /\ requests' = Answered(Request("fetchCart", t))
    /\ cart' = data
    /\ isLoading' = FALSE
    /\ hasInitialized' = TRUE
    /\ UNCHANGED <<storeVars, probeVars, pageVars, authVars>>
    /\ Commit

\* The same without the finally block
FetchCartFailsNoFinally(t) ==
    /\ BagIn(Request("fetchCart", t), requests)
    /\ requests' = Answered(Request("fetchCart", t))
    /\ UNCHANGED <<storeVars, probeVars, pageVars, authVars, cartVars>>

\* A response that is not OK, or fetch rejected: the finally block
FetchCartFails(t) ==
    /\ BagIn(Request("fetchCart", t), requests)
    /\ requests' = Answered(Request("fetchCart", t))
    /\ isLoading' = FALSE
    /\ hasInitialized' = TRUE
    /\ UNCHANGED <<storeVars, probeVars, pageVars, authVars, cart>>
    /\ Commit

\* The effect of CartProvider, run after a commit that changed a dependency
CartEffect ==
    /\ effectDue
    /\ IF isAuthenticated /\ Truthy(token) /\ ~hasInitialized
       THEN /\ CanSend
            /\ isLoading' = TRUE
            /\ requests' = Sent(Request("fetchCart", token))
            /\ effectDue' = FALSE
            /\ UNCHANGED <<cart, hasInitialized>>
       ELSE IF ~isAuthenticated
       THEN /\ cart' = Null
            /\ hasInitialized' = FALSE
            /\ effectDue' = hasInitialized
            /\ UNCHANGED <<isLoading, requests>>
       ELSE /\ effectDue' = FALSE
            /\ UNCHANGED <<cart, isLoading, hasInitialized, requests>>
    /\ UNCHANGED <<storeVars, probeVars, pageVars, authVars>>

\* addToCart, updateCartItem, removeFromCart and clearCart are one handler
\* with four URLs
Mutations == {"addToCart", "updateCartItem", "removeFromCart", "clearCart"}

\* if (!isAuthenticated || !token) return false
MutationRefused == ~isAuthenticated \/ ~Truthy(token)

\* The cart the early return leaves and the value it returns
MutationRefusal(c) == [cart |-> c, returns |-> FALSE]

\* What await fetch gives a mutation: an OK response and its body, a
\* response that is not OK, or a rejection (a network error, or a body that
\* response.json() cannot read), which the catch block handles
OkResponse(data) == [ok |-> TRUE, rejected |-> FALSE, data |-> data]

NotOkResponse == [ok |-> FALSE, rejected |-> FALSE, data |-> Null]

NetworkError == [ok |-> FALSE, rejected |-> TRUE, data |-> Null]

\* setCart(data) and return true whatever the response
MutationOutcomeOptimistic(c, response) == [cart |-> response.data, returns |-> TRUE]

\* The segment after await fetch: the cart it leaves and the value the
\* mutation returns
MutationOutcome(c, response) ==
    IF ~response.rejected /\ response.ok
    THEN [cart |-> response.data, returns |-> TRUE]
    ELSE [cart |-> c, returns |-> FALSE]

\* A mutation, up to await fetch
MutationCall(kind) ==
    /\ Interactive
    /\ IF MutationRefused
       THEN /\ UNCHANGED requests
            /\ cart' = MutationRefusal(cart).cart
       ELSE /\ CanSend
            /\ requests' = Sent(Request(kind, token))
            /\ UNCHANGED cart
    /\ UNCHANGED <<storeVars, probeVars, pageVars, authVars, isLoading, hasInitialized,
                   effectDue>>

\* response.ok: setCart(data), return true
MutationOk(kind, t, data) ==
    /\ BagIn(Request(kind, t), requests)
    /\ requests' = Answered(Request(kind, t))
    /\ cart' = MutationOutcome(cart, OkResponse(data)).cart
    /\ UNCHANGED <<storeVars, probeVars, pageVars, authVars, isLoading, hasInitialized,
                   effectDue>>

\* A response that is not OK, or fetch rejected: return false
MutationFails(kind, t) ==
    /\ BagIn(Request(kind, t), requests)
    /\ requests' = Answered(Request(kind, t))
    /\ \E response \in {NotOkResponse, NetworkError} :
          cart' = MutationOutcome(cart, response).cart
    /\ UNCHANGED <<storeVars, probeVars, pageVars, authVars, isLoading, hasInitialized,
                   effectDue>>

NextClient ==
    \/ Mount
    \/ \E kind \in {"login", "register"} : AuthCall(kind)
    \/ \E kind \in {"login", "register"} : \E data \in AuthData : AuthResponseOk(kind, data)
    \/ \E kind \in {"login", "register"} : AuthResponseFails(kind)
    \/ logout
    \/ fetchCart
    \/ \E t \in Tokens : \E data \in CartData(t) : FetchCartOk(t, data)
    \/ \E t \in Tokens : FetchCartFails(t)
    \/ CartEffect
    \/ \E kind \in Mutations : MutationCall(kind)
    \/ \E kind \in Mutations : \E t \in Tokens : \E data \in CartData(t) :
           MutationOk(kind, t, data)
    \/ \E kind \in Mutations : \E t \in Tokens : MutationFails(kind, t)

SpecClient == InitClient /\ [][NextClient]_vars

\* The fetch of a fetchCart resolves or rejects
FetchCartSettles ==
    \E t \in Tokens : FetchCartFails(t) \/ \E data \in CartData(t) : FetchCartOk(t, data)

\* The same browser, in which no fetch of fetchCart is left unanswered for ever
SpecClientLive == SpecClient /\ WF_vars(FetchCartSettles)

-----------------------------------------------------------------------------
(* The checkout page and the CheckoutForm it renders, for a signed-in user
   whose cart has items *)

\* A state of the providers that SpecClient reaches: a session, and its cart
\* loaded with an item
SignedIn ==
    /\ user = UserData(1)
    /\ token = Str("t1")
    /\ authLoading = FALSE
    /\ localStorage = [auth_token |-> Str("t1"),
                       auth_user |-> Str(Stringify(UserData(1)))]
    /\ cart = [userId |-> 1, items |-> <<CartItem(2)>>]
    /\ isLoading = FALSE
    /\ hasInitialized = TRUE
    /\ effectDue = FALSE

\* showToast(message, type)
ShowToast(text, type) == [isVisible |-> TRUE, message |-> text, type |-> type]

\* The page renders its two columns: past the two early returns
CheckoutRendered ==
    /\ checkoutStep = "open"
    /\ ~authLoading /\ isAuthenticated
    /\ cart # Null /\ cart.items # <<>>

\* {!clientSecret ? <button> : stripe && <Elements><CheckoutForm/></Elements>}
ButtonRendered == CheckoutRendered /\ clientSecret = ""

FormRendered == CheckoutRendered /\ clientSecret # "" /\ stripe # Null

\* The page as first rendered, its mount effect run up to the fetch of getStripe
InitCheckout ==
    /\ StartState
    /\ audit = "none"
    /\ ProbeIdle
    /\ SignedIn
    /\ ViewsClosed
    /\ requests = SetToBag({Request("getStripe", Null)})
    /\ order = Null
    /\ clientSecret = ""
    /\ checkoutLoading = FALSE
    /\ stripe = Null
    /\ toast = NoToast
    /\ checkoutStep = "open"
    /\ placed = <<>>
    /\ redirectDue = FALSE
    /\ widgetReady = FALSE
    /\ formLoading = FALSE
    /\ formMessage = ""
    /\ confirming = FALSE
    /\ callbacks = <<>>

\* initializeStripe: getStripe() resolved
StripeLoaded ==
    /\ BagIn(Request("getStripe", Null), requests)
    /\ requests' = Answered(Request("getStripe", Null))
    /\ stripe' = Str("stripe")
    /\ UNCHANGED <<storeVars, probeVars, viewVars, authVars, cartVars, formVars, order,
                   clientSecret, checkoutLoading, toast, checkoutStep, placed, redirectDue>>

\* initializeStripe: getStripe() threw
StripeFails ==
    /\ BagIn(Request("getStripe", Null), requests)
    /\ requests' = Answered(Request("getStripe", Null))
    /\ toast' = ShowToast("Failed to initialize payment system", "error")
    /\ UNCHANGED <<storeVars, probeVars, viewVars, authVars, cartVars, formVars, order,
                   clientSecret, checkoutLoading, stripe, checkoutStep, placed, redirectDue>>

closeToast ==
    /\ checkoutStep = "open"
    /\ toast.isVisible
    /\ toast' = [toast EXCEPT !.isVisible = FALSE]
    /\ UNCHANGED <<storeVars, probeVars, viewVars, clientVars, formVars, order, clientSecret,
                   checkoutLoading, stripe, checkoutStep, placed, redirectDue>>

\* A click on 'Proceed to Payment', up to the fetch of createOrder
handleProceedToPayment ==
    /\ ButtonRendered
    /\ ~checkoutLoading
    /\ IF ~Truthy(token)
       THEN /\ toast' = ShowToast("Failed to create order", "error")
            /\ UNCHANGED <<checkoutLoading, requests>>
       ELSE /\ CanSend
            /\ checkoutLoading' = TRUE
            /\ requests' = Sent(Request("createOrder", token))
            /\ UNCHANGED toast
    /\ UNCHANGED <<storeVars, probeVars, viewVars, authVars, cartVars, formVars, order,
                   clientSecret, stripe, checkoutStep, placed, redirectDue>>

\* The order POST /api/Order/place answers OK with
CreatedOrder(id, t) ==
    [id |-> id, userId |-> (CHOOSE data \in AuthData : data.token = t).userId]

\* createOrder answered OK: setOrder(createdOrder), then up to the fetch of
\* createPaymentIntent, with the token of the render that was clicked
OrderCreated(t) ==
    /\ BagIn(Request("createOrder", t), requests)
    /\ Len(placed) < MaxOrders
    /\ LET createdOrder == CreatedOrder(Len(placed) + 1, t)
       IN  /\ placed' = Append(placed, createdOrder.id)
           /\ order' = createdOrder
    /\ requests' = Answered(Request("createOrder", t)) (+)
                       SetToBag({Request("createPaymentIntent", t)})
    /\ UNCHANGED <<storeVars, probeVars, viewVars, authVars, cartVars, formVars, clientSecret,
                   checkoutLoading, stripe, toast, checkoutStep, redirectDue>>

\* createOrder returned null: a response that is not OK, or fetch rejected
OrderFails(t) ==
    /\ BagIn(Request("createOrder", t), requests)
    /\ requests' = Answered(Request("createOrder", t))
    /\ toast' = ShowToast("Failed to create order", "error")
    /\ checkoutLoading' = FALSE
    /\ UNCHANGED <<storeVars, probeVars, viewVars, authVars, cartVars, formVars, order,
                   clientSecret, stripe, checkoutStep, placed, redirectDue>>

\* paymentIntent.clientSecret of an OK response
ClientSecrets == {"pi_1_secret"}

\* createPaymentIntent answered OK
IntentCreated(t, secret) ==
    /\ BagIn(Request("createPaymentIntent", t), requests)
    /\ requests' = Answered(Request("createPaymentIntent", t))
    /\ clientSecret' = secret
    /\ checkoutLoading' = FALSE
    /\ UNCHANGED <<storeVars, probeVars, viewVars, authVars, cartVars, formVars, order, stripe,
                   toast, checkoutStep, placed, redirectDue>>

\* createPaymentIntent returned null
IntentFails(t) ==
    /\ BagIn(Request("createPaymentIntent", t), requests)
    /\ requests' = Answered(Request("createPaymentIntent", t))
    /\ toast' = ShowToast("Failed to initialize payment", "error")
    /\ checkoutLoading' = FALSE
    /\ UNCHANGED <<storeVars, probeVars, viewVars, authVars, cartVars, formVars, order,
                   clientSecret, stripe, checkoutStep, placed, redirectDue>>

\* Elements has loaded: useStripe() and useElements() return their objects
ElementsReady ==
    /\ FormRendered
    /\ ~widgetReady
    /\ widgetReady' = TRUE
    /\ UNCHANGED <<storeVars, probeVars, viewVars, clientVars, checkoutVars, formLoading,
                   formMessage, confirming, callbacks>>

\* The form submitted, up to await stripe.confirmPayment; its button is
\* disabled while isLoading
handleSubmit ==
    /\ FormRendered
    /\ IF ~widgetReady
       THEN UNCHANGED <<formLoading, formMessage, confirming, callbacks>>
       ELSE /\ ~formLoading
            /\ formLoading' = TRUE
            /\ formMessage' = ""
            /\ confirming' = TRUE
            /\ callbacks' = <<>>
    /\ UNCHANGED <<storeVars, probeVars, viewVars, clientVars, checkoutVars, widgetReady>>

\* handlePaymentSuccess and handlePaymentError, called by the form: the state
\* of the page they leave, if the page is still shown
PageAfter(callback, text) ==
    IF checkoutStep # "open"
    THEN UNCHANGED <<toast, redirectDue>>
    ELSE IF callback = "onSuccess"
    THEN /\ toast' = ShowToast("Payment successful! Redirecting to orders...", "success")
         /\ redirectDue' = TRUE
    ELSE /\ toast' = ShowToast("Payment failed: " \o text, "error")
         /\ UNCHANGED redirectDue

\* The segment after await stripe.confirmPayment without its finally block
SettleWithoutFinally(callback, shown, text) ==
    /\ confirming
    /\ confirming' = FALSE
    /\ callbacks' = Append(callbacks, callback)
    /\ IF checkoutStep # "open"
       THEN UNCHANGED <<formLoading, formMessage>>
       ELSE /\ UNCHANGED formLoading
            /\ formMessage' = shown
    /\ PageAfter(callback, text)
    /\ UNCHANGED <<storeVars, probeVars, viewVars, clientVars, widgetReady, order, clientSecret,
                   checkoutLoading, stripe, checkoutStep, placed>>

\* The segment of handleSubmit after await stripe.confirmPayment, which
\* invokes callback; text is what setMessage and onError are given
Settle(callback, shown, text) ==
    /\ confirming
    /\ confirming' = FALSE
    /\ callbacks' = Append(callbacks, callback)
    /\ IF checkoutStep # "open"
       THEN UNCHANGED <<formLoading, formMessage>>
       ELSE /\ formLoading' = FALSE
            /\ formMessage' = shown
    /\ PageAfter(callback, text)
    /\ UNCHANGED <<storeVars, probeVars, viewVars, clientVars, widgetReady, order, clientSecret,
                   checkoutLoading, stripe, checkoutStep, placed>>

\* error.message of the error stripe.confirmPayment resolves with
ErrorMessages == {"", "Your card was declined."}

ErrorTypes == {"card_error", "validation_error", "api_error"}

\* error.message || 'Payment failed'
OrPaymentFailed(text) == IF text # "" THEN text ELSE "Payment failed"

\* confirmPayment resolved without error
PaymentConfirmed == Settle("onSuccess", formMessage, "")

\* confirmPayment resolved with error
PaymentError(type, text) ==
    IF type \in {"card_error", "validation_error"}
    THEN Settle("onError", OrPaymentFailed(text), OrPaymentFailed(text))
    ELSE Settle("onError", "An unexpected error occurred.", "An unexpected error occurred")

\* confirmPayment threw
PaymentThrows == Settle("onError", "Payment processing failed", "Payment processing failed")

\* The timer of handlePaymentSuccess: router.push('/orders')
Redirect ==
    /\ redirectDue
    /\ checkoutStep = "open"
    /\ checkoutStep' = "left"
    /\ redirectDue' = FALSE
    /\ UNCHANGED <<storeVars, probeVars, viewVars, clientVars, formVars, order, clientSecret,
                   checkoutLoading, stripe, toast, placed>>

NextCheckout ==
    \/ StripeLoaded
    \/ StripeFails
    \/ closeToast
    \/ handleProceedToPayment
    \/ \E t \in Tokens : OrderCreated(t)
    \/ \E t \in Tokens : OrderFails(t)
    \/ \E t \in Tokens : \E secret \in ClientSecrets : IntentCreated(t, secret)
    \/ \E t \in Tokens : IntentFails(t)
    \/ ElementsReady
    \/ handleSubmit
    \/ PaymentConfirmed
    \/ \E type \in ErrorTypes : \E text \in ErrorMessages : PaymentError(type, text)
    \/ PaymentThrows
    \/ Redirect

SpecCheckout == InitCheckout /\ [][NextCheckout]_vars

-----------------------------------------------------------------------------
(* The orders page: the statuses GET /api/Order answers with, the buttons the
   page renders for each order, and the status changes they send *)

Range(f) == {f[k] : k \in DOMAIN f}

\* One character of toLowerCase()
LowerChar(c) ==
    LET UpperCase == "ABCDEFGHIJKLMNOPQRSTUVWXYZ"
        LowerCase == "abcdefghijklmnopqrstuvwxyz"
    IN  IF \E k \in 1..Len(UpperCase) : SubSeq(UpperCase, k, k) = c
        THEN LET k == CHOOSE k \in 1..Len(UpperCase) : SubSeq(UpperCase, k, k) = c
             IN  SubSeq(LowerCase, k, k)
        ELSE c

RECURSIVE ToLowerCase(_)
ToLowerCase(s) ==
    IF Len(s) = 0 THEN ""
    ELSE LowerChar(SubSeq(s, 1, 1)) \o ToLowerCase(SubSeq(s, 2, Len(s)))

\* The decimal digits of a number that is not negative
RECURSIVE DigitsOf(_)
DigitsOf(n) ==
    IF n < 10 THEN SubSeq("0123456789", n + 1, n + 1)
    ELSE DigitsOf(n \div 10) \o SubSeq("0123456789", (n % 10) + 1, (n % 10) + 1)

\* String(value) of a status: a string is itself, a number its decimal digits
String(v) ==
    IF v.t = "string" THEN v.s
    ELSE IF v.n < 0 THEN "-" \o DigitsOf(0 - v.n)
    ELSE DigitsOf(v.n)

StatusOption(value, label) == [value |-> value, label |-> label]

getNextStatuses(currentStatus) ==
    LET statusString == ToLowerCase(String(currentStatus))
    IN  CASE statusString \in {"pending", "0"} -> <<StatusOption("Paid", "Mark as Paid")>>
          [] statusString \in {"paid", "1"} -> <<StatusOption("Shipped", "Mark as Shipped")>>
          [] statusString \in {"shipped", "2"} ->
                <<StatusOption("Delivered", "Mark as Delivered")>>
          [] statusString \in {"delivered", "3"} ->
                <<StatusOption("Cancelled", "Cancel Order")>>
          [] OTHER -> <<>>

getStatusText(status) ==
    LET statusString == ToLowerCase(String(status))
    IN  CASE statusString \in {"pending", "0"} -> "Pending"
          [] statusString \in {"paid", "1"} -> "Paid"
          [] statusString \in {"shipped", "2"} -> "Shipped"
          [] statusString \in {"delivered", "3"} -> "Delivered"
          [] statusString \in {"cancelled", "4"} -> "Cancelled"
          [] OTHER -> "Unknown"

\* String(order.status).toLowerCase() === 'pending' || order.status === 0
CompletePaymentOffered(status) ==
    ToLowerCase(String(status)) = "pending" \/ status = Num(0)

\* The labels of the buttons of an order's footer, before 'View Details'
Buttons(status) ==
    (IF CompletePaymentOffered(status) THEN <<"Complete Payment">> ELSE <<>>)
        \o [k \in 1..Len(getNextStatuses(status)) |-> getNextStatuses(status)[k].label]

\* status: string | number, as GET /api/Order may answer: the names in some
\* spellings, their numbers, the numbers as strings, and statuses the page
\* does not know
Statuses ==
    {Str("Pending"), Str("pending"), Str("PENDING"), Str("Paid"), Str("Shipped"),
     Str("Delivered"), Str("Cancelled"), Str("cancelled"), Str("Refunded"), Str(""),
     Str("0"), Str("1"), Str("4")}
        \cup {Num(n) : n \in 0..5} \cup {Num(10)}

StatusNames == <<"Pending", "Paid", "Shipped", "Delivered", "Cancelled">>

\* The status the service answers with once it has accepted the change to
\* value: its name or its number
Encodings(value) ==
    {Str(value)} \cup {Num(n - 1) : n \in {k \in 1..Len(StatusNames) : StatusNames[k] = value}}

\* The PATCH of updateOrderStatus awaiting its response
StatusRequest(orderId, newStatus, t) ==
    [kind |-> "updateOrderStatus", token |-> t, orderId |-> orderId,
     newStatus |-> newStatus]

\* The page as first rendered with a session, its effect run up to the fetch
\* of fetchOrders
InitOrders ==
    /\ StartState
    /\ audit = "none"
    /\ ProbeIdle
    /\ CheckoutClosed
    /\ SignedIn
    /\ requests = SetToBag({Request("fetchOrders", token)})
    /\ orders = <<>>
    /\ changes = <<>>
    /\ summary = Null

\* What GET /api/Order answers with: on the first load any orders, afterwards
\* the orders shown, each as the last change the service accepted leaves it
OrdersData ==
    LET Served(k) == IF changes[k] = "" THEN {orders[k]} ELSE Encodings(changes[k])
    IN  IF changes = <<>>
        THEN UNION {[1..n -> Statuses] : n \in 1..MaxShown}
        ELSE {data \in [1..Len(changes) -> UNION {Served(k) : k \in 1..Len(changes)}] :
                \A k \in 1..Len(changes) : data[k] \in Served(k)}

\* fetchOrders, response.ok: setOrders(data)
FetchOrdersOk(t, data) ==
    /\ BagIn(Request("fetchOrders", t), requests)
    /\ requests' = Answered(Request("fetchOrders", t))
    /\ orders' = data
    /\ changes' = IF changes = <<>> THEN [k \in 1..Len(data) |-> ""] ELSE changes
    /\ UNCHANGED <<storeVars, probeVars, authVars, cartVars, checkoutVars, formVars, summary>>

\* fetchOrders, a response that is not OK or a rejection: a toast
FetchOrdersFails(t) ==
    /\ BagIn(Request("fetchOrders", t), requests)
    /\ requests' = Answered(Request("fetchOrders", t))
    /\ UNCHANGED <<storeVars, probeVars, authVars, cartVars, pageVars>>

\* A status button of order k clicked: updateOrderStatus up to await fetch
updateOrderStatus(k, statusOption) ==
    /\ k \in 1..Len(orders)
    /\ statusOption \in Range(getNextStatuses(orders[k]))
    /\ statusOption.label \in Range(Buttons(orders[k]))
    /\ IF ~Truthy(token)
       THEN UNCHANGED requests
       ELSE /\ CanSend
            /\ requests' = Sent(StatusRequest(k, statusOption.value, token))
    /\ UNCHANGED <<storeVars, probeVars, authVars, cartVars, pageVars>>

\* updateOrderStatus, response.ok: the service has accepted the change; a
\* toast, and fetchOrders() up to its fetch
UpdateOk(k, value, t) ==
    /\ BagIn(StatusRequest(k, value, t), requests)
    /\ requests' = (requests (-) SetToBag({StatusRequest(k, value, t)}))
                        (+) SetToBag({Request("fetchOrders", t)})
    /\ changes' = [changes EXCEPT ![k] = value]
    /\ UNCHANGED <<storeVars, probeVars, authVars, cartVars, checkoutVars, formVars, orders,
                   summary>>

\* updateOrderStatus, a response that is not OK or a rejection: a toast
UpdateFails(k, value, t) ==
    /\ BagIn(StatusRequest(k, value, t), requests)
    /\ requests' = Answered(StatusRequest(k, value, t))
    /\ UNCHANGED <<storeVars, probeVars, authVars, cartVars, pageVars>>

NextOrders ==
    \/ \E t \in Tokens : \E data \in OrdersData : FetchOrdersOk(t, data)
    \/ \E t \in Tokens : FetchOrdersFails(t)
    \/ \E k \in 1..Len(orders) : \E statusOption \in Range(getNextStatuses(orders[k])) :
            updateOrderStatus(k, statusOption)
    \/ \E k \in 1..MaxShown : \E value \in Range(StatusNames) : \E t \in Tokens :
            UpdateOk(k, value, t)
    \/ \E k \in 1..MaxShown : \E value \in Range(StatusNames) : \E t \in Tokens :
            UpdateFails(k, value, t)

SpecOrders == InitOrders /\ [][NextOrders]_vars

-----------------------------------------------------------------------------
(* The cart totals, as the cart page and the checkout page render them *)

\* cart.items.reduce((total, item) => total + item.quantity, total)
RECURSIVE ReduceQuantity(_, _)
ReduceQuantity(items, total) ==
    IF items = <<>> THEN total
    ELSE ReduceQuantity(Tail(items), total + Head(items).quantity)

\* cart.items.reduce((total, item) => total + (item.price * item.quantity), total)
RECURSIVE ReducePrice(_, _)
ReducePrice(items, total) ==
    IF items = <<>> THEN total
    ELSE ReducePrice(Tail(items), total + (Head(items).price * Head(items).quantity))

\* The same reducer adding item.price alone
RECURSIVE ReduceUnitPrice(_, _)
ReduceUnitPrice(items, total) ==
    IF items = <<>> THEN total
    ELSE ReduceUnitPrice(Tail(items), total + Head(items).price)

getTotalItems(c) == IF c = Null THEN 0 ELSE ReduceQuantity(c.items, 0)

\* The total of the unit prices
getTotalPriceOfUnits(c) == IF c = Null THEN 0 ELSE ReduceUnitPrice(c.items, 0)

getTotalPrice(c) == IF c = Null THEN 0 ELSE ReducePrice(c.items, 0)

\* A cart item of any price and quantity; prices in cents
PricedItem(price, quantity) == [productId |-> 1, price |-> price, quantity |-> quantity]

\* The carts the service may answer with, and no cart
Carts ==
    LET Prices == {0, 999, 2500}
        Quantities == {1, 2, 3}
    IN  {Null} \cup
            {[userId |-> 1, items |-> items] :
                items \in UNION {[1..n -> {PricedItem(price, quantity) :
                                            price \in Prices, quantity \in Quantities}] :
                                    n \in 0..MaxItems}}

\* A page that shows the totals is open, with a session and some cart
InitTotals ==
    /\ StartState
    /\ audit = "none"
    /\ ProbeIdle
    /\ CheckoutClosed
    /\ user = UserData(1)
    /\ token = Str("t1")
    /\ authLoading = FALSE
    /\ localStorage = [auth_token |-> Str("t1"),
                       auth_user |-> Str(Stringify(UserData(1)))]
    /\ cart \in Carts
    /\ isLoading = FALSE
    /\ hasInitialized = TRUE
    /\ effectDue = FALSE
    /\ requests = EmptyBag
    /\ orders = <<>>
    /\ changes = <<>>
    /\ summary = Null

\* A render calls getTotalItems() and getTotalPrice()
RenderTotals ==
    /\ summary' = [items |-> getTotalItems(cart), price |-> getTotalPrice(cart)]
    /\ UNCHANGED <<storeVars, probeVars, clientVars, checkoutVars, formVars, orders, changes>>

NextTotals ==
    \/ RenderTotals
    \/ \E kind \in Mutations : MutationCall(kind)
    \/ \E kind \in Mutations : \E t \in Tokens : \E data \in CartData(t) :
            MutationOk(kind, t, data)
    \/ \E kind \in Mutations : \E t \in Tokens : MutationFails(kind, t)

SpecTotals == InitTotals /\ [][NextTotals]_vars

-----------------------------------------------------------------------------
(* The store as its callers see it *)

\* The collection: the array global.globalProducts refers to
Store == IF globalProducts = 0 THEN <<>> ELSE heap[globalProducts]

Ids(products) == {products[k].id : k \in 1..Len(products)}

\* The contract's validation: name and description non-empty strings of at most
\* 100 and 500 characters, price a number above 0
ValidInput(body) ==
    /\ body.name.t = "string" /\ Len(body.name.s) \in 1..100
    /\ body.description.t = "string" /\ Len(body.description.s) \in 1..500
    /\ body.price.t = "number" /\ body.price.n > 0

\* The image the contract stores: unset if empty
StoredImage(body) ==
    IF body.image \in {Undefined, Null, Str(""), Num(0)} THEN Undefined ELSE body.image

\* product carries the four fields of body
Carries(product, body) ==
    /\ product.name = body.name
    /\ product.description = body.description
    /\ product.price = body.price
    /\ product.image = StoredImage(body)

\* One whole Create, Update or Delete of the contract, from (items, next) to
\* (items2, next2)
WholeCreate(items, next, items2, next2) ==
    /\ next2 = next + 1
    /\ Len(items2) = Len(items) + 1
    /\ SubSeq(items2, 1, Len(items)) = items
    /\ items2[Len(items2)].id = next
    /\ \E body \in Bodies : ValidInput(body) /\ Carries(items2[Len(items2)], body)

WholeUpdate(items, next, items2, next2) ==
    /\ next2 = next
    /\ Len(items2) = Len(items)
    /\ \E k \in 1..Len(items) :
         /\ \A j \in 1..Len(items) : j # k => items2[j] = items[j]
         /\ items2[k].id = items[k].id
         /\ items2[k].createdAt = items[k].createdAt
         /\ \E body \in Bodies : ValidInput(body) /\ Carries(items2[k], body)

WholeDelete(items, next, items2, next2) ==
    /\ next2 = next
    /\ Len(items2) = Len(items) - 1
    /\ \E k \in 1..Len(items) :
         /\ \A j \in 1..(k - 1) : items2[j] = items[j]
         /\ \A j \in k..Len(items2) : items2[j] = items[j + 1]

\* The process coming up: a route module is evaluated, the seed records
\* appear if there is no array yet, the counter is set
StoreComesUp ==
    /\ listLoaded' # listLoaded \/ itemLoaded' # itemLoaded
    /\ globalProducts = 0 => Ids(Store') = {1, 2}
    /\ globalProducts # 0 => Store' = Store
    /\ nextId' \in {nextId, FirstProductId}

\* C1: every store operation takes effect atomically.  At every await, where
\* another handler can run, the collection and the counter differ from what
\* they were at the previous await by nothing or by exactly one whole Create,
\* Update or Delete; the counter handlers read equals the global one; and the
\* List answered in any state is the collection of that state, whole.
C1_Atomic ==
    /\ [](listLoaded => /\ nextProductId = nextId
                        /\ GetOutcome(heap[listProducts]) = Response(200, "", "", Store))
    /\ [][ \/ UNCHANGED <<Store, nextId>>
           \/ StoreComesUp
           \/ WholeCreate(Store, nextId, Store', nextId')
           \/ WholeUpdate(Store, nextId, Store', nextId')
           \/ WholeDelete(Store, nextId, Store', nextId') ]_vars

\* Handlers are suspended at their awaits while a Create and a Delete of other
\* handlers have taken effect
C1_Witness ==
    /\ BagCardinality(pending) >= 2
    /\ BagIn(Handler("PUT", "json", 2), pending)
    /\ created # <<>>
    /\ deleted # {}

-----------------------------------------------------------------------------

\* The record of the collection with this id
RecordWith(products, id) == CHOOSE p \in {products[k] : k \in 1..Len(products)} : p.id = id

\* The ids of the seed records
SeedIds == Ids(SeedProducts(0, 0, 0, 0))

\* The valid Creates a POST handler resuming now can make: its outcomes
CreatesNow ==
    {PostOutcome(heap[listProducts], nextId, body, t[1], t[2]) :
        body \in {b \in Bodies : ValidInput(b)},
        t \in {c \in ClockReads(now) \X ClockReads(now) : c[1] <= c[2]}}

\* C2: two concurrent Creates with valid bodies receive two distinct ids that
\* are consecutive integers, and both new records are in the collection
\* afterwards (until a Delete removes them): every Create receives the id
\* that follows the id of the Create before it, however their handlers
\* overlapped.
C2_ConcurrentCreates ==
    \A i \in 1..Len(created) :
        /\ i > 1 => created[i] = created[i - 1] + 1
        /\ created[i] \notin deleted => created[i] \in Ids(Store)

\* Two POST handlers were suspended at await request.json() together, and
\* both have created their records
C2_Witness ==
    /\ Len(created) = 2
    /\ created[2] \in races.overlapped
    /\ deleted = {}
    /\ Len(Store) = 4

\* C3: two valid Updates of two different existing ids that run concurrently,
\* also with a Delete of a third record between them that shifts the array,
\* are both in the collection afterwards, each on the record with its own id:
\* every id updated since its handler raced with a Delete names a record of
\* the collection that carries the body of its latest Update.
C3_NoLostUpdate ==
    \A id \in DOMAIN races.done :
        /\ id \in Ids(Store)
        /\ Carries(RecordWith(Store, id), races.done[id])

\* The PUT handlers for 2 and 3 were both suspended at await request.json()
\* when record 1 was deleted, and both have updated since, with different
\* bodies
C3_Witness ==
    /\ races.removed = 1
    /\ DOMAIN races.done = {2, 3}
    /\ races.done[2] = BodyA
    /\ races.done[3] = BodyB

\* C4: the ids of the records of the collection are pairwise distinct, and an
\* id once assigned (a seed's, a created one, one whose record was deleted) is
\* never assigned again by a later Create.
C4_IdsNeverReused ==
    /\ \A j, k \in 1..Len(Store) : j # k => Store[j].id # Store[k].id
    /\ \A i, j \in 1..Len(created) : i # j => created[i] # created[j]
    /\ \A i \in 1..Len(created) : created[i] \notin SeedIds
    /\ listLoaded =>
         \A out \in CreatesNow :
            /\ out.response.status = 201
            /\ out.response.body[1].id \notin
                 Ids(Store) \cup deleted \cup SeedIds \cup {created[i] : i \in 1..Len(created)}

\* The record created last has been deleted, with a seed record, and a POST
\* handler is about to create the next
C4_Witness ==
    /\ created # <<>>
    /\ created[Len(created)] \in deleted
    /\ 1 \in deleted
    /\ BagIn(Handler("POST", "json", 0), pending)

\* C5: the next-id counter never decreases, whatever operations run, and
\* every successful Create returns a product whose id is greater than the id
\* of every product created earlier in the process, seed records included.
C5_CounterMonotone ==
    /\ [](\A i \in 1..Len(created) :
            /\ \A s \in SeedIds : created[i] > s
            /\ \A j \in 1..(i - 1) : created[i] > created[j])
    /\ [][ /\ nextId' >= nextId
           /\ nextProductId' >= nextProductId
           /\ created' # created =>
                /\ created' = Append(created, nextId)
                /\ \A id \in Ids(Store) \cup deleted : nextId > id ]_vars

\* Creates have succeeded one after another, with an Update of a seed record
\* and a Delete among them
C5_Witness ==
    /\ Len(created) >= 2
    /\ deleted # {}
    /\ \E k \in 1..Len(Store) : Store[k].id \in SeedIds /\ Carries(Store[k], BodyA)

\* C6, as amended: a valid Create returns the value of the next-id counter,
\* which starts at 3, the seed records holding 1 and 2, also when the store is
\* empty, its records having been deleted; the next valid Create returns the
\* integer that follows; N concurrent valid Creates yield N records with the N
\* consecutive ids from the counter on, with no duplicates and no gaps.
C6_CreatesFromCounter ==
    /\ \A i \in 1..Len(created) : created[i] = FirstProductId + (i - 1)
    /\ listLoaded =>
         /\ nextId = FirstProductId + Len(created)
         /\ \A out \in CreatesNow :
              /\ out.response.status = 201
              /\ out.response.body[1].id = nextId
              /\ out.nextId = nextId + 1

\* Two POST handlers were suspended together while the store was empty, and
\* their records are the two records of the store
C6_Witness ==
    /\ Len(created) = 2
    /\ created[1] \in races.intoEmpty
    /\ created[2] \in races.overlapped
    /\ Ids(Store) = {created[1], created[2]}

\* C6 as claimed: whenever the store is empty, the first valid Create returns
\* id 1.
C6_Original ==
    listLoaded /\ Store = <<>> =>
        \A out \in CreatesNow : out.response.status = 201 /\ out.response.body[1].id = 1

\* C7: a successful Update of a record leaves its id and its createdAt as
\* they were and sets its updatedAt to a value greater than or equal to the
\* previous one, at every Update of a sequence of Updates of the record: in
\* every step that updates, the record answered is the record stored where the
\* record with the id was, with that id and createdAt and a later or equal
\* updatedAt; and no step of any kind changes the createdAt or lowers the
\* updatedAt of a record that stays.
C7_UpdateKeeps ==
    [][ /\ \A id \in PendingIds : \A body \in Bodies : \A t \in ClockReads(now) :
             LET out == PutOutcome(Store, id, body, t)
                 before == RecordWith(Store, id)
                 after == out.response.body[1]
             IN  PutJsonAt(id, body, t) /\ out.response.status = 200 =>
                    /\ after.id = id
                    /\ after.createdAt = before.createdAt
                    /\ after.updatedAt >= before.updatedAt
                    /\ Ids(Store') = Ids(Store)
                    /\ RecordWith(Store', id) = after
        /\ \A id \in Ids(Store) \cap Ids(Store') :
             /\ RecordWith(Store', id).createdAt = RecordWith(Store, id).createdAt
             /\ RecordWith(Store', id).updatedAt >= RecordWith(Store, id).updatedAt ]_vars

\* Record 1 has been updated at a later time than it was created, and the
\* handler of another Update of it is suspended at await request.json()
C7_Witness ==
    /\ Store # <<>>
    /\ Store[1].id = 1
    /\ Carries(Store[1], BodyB)
    /\ Store[1].updatedAt > Store[1].createdAt
    /\ BagIn(Handler("PUT", "json", 1), pending)

\* C8: once a Delete of an id has succeeded, no List contains a record with
\* that id, whatever Creates and Updates follow, and another Delete of that id
\* answers 404 'Product not found' and changes nothing.
C8_DeletedStaysGone ==
    /\ \A id \in deleted :
         /\ id \notin Ids(Store)
         /\ listLoaded => id \notin Ids(GetOutcome(heap[listProducts]).body)
    /\ \A idParam \in IdParams :
         LET id == ParseInt(idParam)
             out == DeleteOutcome(heap[itemProducts], idParam)
         IN  itemLoaded /\ ~IsNaN(id) /\ id.n \in deleted =>
                /\ out.response = Response(404, "Product not found", "", <<>>)
                /\ out.products = Store
    /\ \A id \in deleted : \A body \in Bodies : \A t \in ClockReads(now) :
         itemLoaded => id \notin Ids(PutOutcome(heap[itemProducts], id, body, t).products)

\* Record 1 has been deleted, Creates and an Update of record 2 have taken
\* effect, and the handler of another DELETE is suspended at await params
C8_Witness ==
    /\ 1 \in deleted
    /\ created # <<>>
    /\ 2 \in Ids(Store) /\ Carries(RecordWith(Store, 2), BodyB)
    /\ BagIn(Handler("DELETE", "params", 0), pending)

\* The collection is in insertion order: ids were assigned in increasing order
InsertionOrder(products) ==
    \A k \in 1..(Len(products) - 1) : products[k].id < products[k + 1].id

\* C9, as amended: after a successful Create(p), List returns the previous
\* collection in its previous order followed by exactly one new record whose
\* name, description and price equal those of p and whose image equals that
\* of p, except that an empty image (an empty string, null, 0) is stored as
\* unset; List always returns all current records in insertion order and
\* never fails.
C9_RoundTrip ==
    listLoaded =>
        /\ GetOutcome(heap[listProducts]).status = 200
        /\ GetOutcome(heap[listProducts]).body = Store
        /\ InsertionOrder(Store)
        /\ \A body \in Bodies : \A t1 \in ClockReads(now) : \A t2 \in ClockReads(t1) :
             LET out == PostOutcome(heap[listProducts], nextId, body, t1, t2)
                 list == GetOutcome(out.products).body
             IN  out.response.status = 201 =>
                    /\ list = Append(Store, out.response.body[1])
                    /\ Carries(list[Len(list)], body)
                    /\ InsertionOrder(list)

\* A product created with an empty image is the last record of the
\* collection, after a Delete and an Update of earlier records
C9_Witness ==
    /\ created # <<>>
    /\ deleted # {}
    /\ Len(Store) >= 2
    /\ Store[Len(Store)].id = created[Len(created)]
    /\ Carries(Store[Len(Store)], BodyEmptyImage)
    /\ Carries(Store[1], BodyB)

\* C9 as claimed: the image of the new record equals that of p.
C9_Original ==
    listLoaded =>
        \A body \in Bodies : \A t1 \in ClockReads(now) : \A t2 \in ClockReads(t1) :
            LET out == PostOutcome(heap[listProducts], nextId, body, t1, t2)
                list == GetOutcome(out.products).body
            IN  out.response.status = 201 =>
                   /\ list = Append(Store, out.response.body[1])
                   /\ list[Len(list)].name = body.name
                   /\ list[Len(list)].description = body.description
                   /\ list[Len(list)].price = body.price
                   /\ list[Len(list)].image = body.image

\* C10: a failed operation mutates nothing.  A step in which an Update is
\* rejected by validation answers 400 and leaves every record as it was; a
\* step in which a Create is rejected by validation answers 400 and leaves
\* the collection and the next-id counter as they were; so does a step in
\* which a handler fails in its catch block.
C10_FailedMutatesNothing ==
    [][ /\ \A body \in Bodies : \A t1 \in ClockReads(now) : \A t2 \in ClockReads(t1) :
             PostJsonAt(body, t1, t2) /\ ~ValidInput(body) =>
                /\ PostOutcome(Store, nextId, body, t1, t2).response.status = 400
                /\ UNCHANGED <<heap, globalProducts, nextId, nextProductId, created>>
        /\ \A id \in PendingIds : \A body \in Bodies : \A t \in ClockReads(now) :
             PutJsonAt(id, body, t) /\ ~ValidInput(body) =>
                /\ PutOutcome(Store, id, body, t).response.status = 400
                /\ UNCHANGED <<heap, globalProducts, nextId, nextProductId>>
        /\ (PostJsonFails \/ \E id \in PendingIds : PutJsonFails(id)) =>
                UNCHANGED <<heap, globalProducts, nextId, nextProductId, created>> ]_vars

\* After a Create and an Update have taken effect, a POST handler and the PUT
\* handler for record 1 are suspended at await request.json(), where a body
\* that fails validation can arrive
C10_Witness ==
    /\ created # <<>>
    /\ 1 \in Ids(Store) /\ Carries(RecordWith(Store, 1), BodyA)
    /\ BagIn(Handler("POST", "json", 0), pending)
    /\ BagIn(Handler("PUT", "json", 1), pending)

-----------------------------------------------------------------------------

\* The integer ids that no record of the collection has
UnknownIds == (0..MaxNextId) \ Ids(Store)

\* C11, as amended: an Update addressed to an integer id that no record of the
\* collection has fails with 404 'Product not found' for every request body
\* that passes validation; a body that fails validation is answered 400 with
\* the validation error, which is decided before the lookup; either way the
\* collection is left as it was.
C11_UnknownId ==
    itemLoaded =>
        \A id \in UnknownIds : \A body \in Bodies : \A t \in ClockReads(now) :
            LET out == PutOutcome(heap[itemProducts], id, body, t)
            IN  /\ out.products = Store
                /\ ValidInput(body) =>
                     out.response = Response(404, "Product not found", "", <<>>)
                /\ ~ValidInput(body) =>
                     /\ out.response.status = 400
                     /\ out.response.error # "Product not found"

\* Record 1 has been deleted and the collection is not empty, while a PUT
\* handler for id 1 is suspended at await request.json()
C11_Witness ==
    /\ 1 \in deleted
    /\ Store # <<>>
    /\ BagIn(Handler("PUT", "json", 1), pending)

\* C11 as claimed: 404 'Product not found' for every request body, valid or
\* invalid.
C11_Original ==
    itemLoaded =>
        \A id \in UnknownIds : \A body \in Bodies : \A t \in ClockReads(now) :
            PutOutcome(heap[itemProducts], id, body, t).response
                = Response(404, "Product not found", "", <<>>)

-----------------------------------------------------------------------------

\* The fields of a body that the contract's validation rejects
InvalidFields(body) ==
    {f \in {"name"} : ~(body.name.t = "string" /\ Len(body.name.s) \in 1..100)}
    \cup {f \in {"description"} :
            ~(body.description.t = "string" /\ Len(body.description.s) \in 1..500)}
    \cup {f \in {"price"} : ~(body.price.t = "number" /\ body.price.n > 0)}

\* The fields an error message names
FieldsNamed(error) ==
    CASE error = "Name, description, and price are required" ->
            {"name", "description", "price"}
      [] error = "Price must be a positive number" -> {"price"}
      [] error = "Name must be 100 characters or less" -> {"name"}
      [] error = "Description must be 500 characters or less" -> {"description"}
      [] OTHER -> {}

\* The request probed is a Create, or an Update of a record of the collection
ProbesAccepting ==
    \/ probe.op = "POST"
    \/ probe.op = "PUT" /\ probe.idParam \in {<<"1">>, <<"2">>}

\* C12 as claimed: Create and Update accept a request exactly when name is
\* non-empty with length <= 100, description is non-empty with length <= 500
\* and price is a number > 0, and reject it with status 400 otherwise.
C12_Original ==
    answer # NoProbe /\ ProbesAccepting =>
        /\ answer.response.status \in {200, 201} <=> ValidInput(probe.body)
        /\ ~ValidInput(probe.body) => answer.response.status = 400

\* C13 as claimed: a request rejected because exactly one of name,
\* description and price is invalid is answered 400 with a message that names
\* that field, and no other.
C13_Original ==
    answer # NoProbe /\ ProbesAccepting =>
        \A f \in {"name", "description", "price"} :
            InvalidFields(probe.body) = {f} =>
                /\ answer.response.status = 400
                /\ FieldsNamed(answer.response.error) = {f}

\* The path segment is the decimal representation of an integer
IsDecimalInteger(s) ==
    LET digits == IF s # <<>> /\ Head(s) = "-" THEN Tail(s) ELSE s
    IN  digits # <<>> /\ \A k \in 1..Len(digits) : IsDigit(digits[k])

\* C14 as claimed: a PUT (here with a body that passes validation) or a DELETE
\* whose id path segment is not the decimal representation of an integer is
\* answered 400 'Invalid product ID' and leaves the collection unchanged.
C14_Original ==
    /\ answer # NoProbe
    /\ probe.op \in {"PUT", "DELETE"}
    /\ ValidInput(probe.body)
    /\ ~IsDecimalInteger(probe.idParam)
    => /\ answer.response = Response(400, "Invalid product ID", "", <<>>)
       /\ answer.products = ProbeProducts

-----------------------------------------------------------------------------

\* The position of the record with this id in the collection
PositionOf(products, id) == CHOOSE k \in 1..Len(products) : products[k].id = id

\* C15: a successful Update replaces name, description, price and image of
\* the addressed record in place.  For every record of the collection and
\* every body that passes validation, the Update answers 200, the record keeps
\* its position and carries the four fields of the body, every other record
\* is unchanged, the collection's length is unchanged, and the response body
\* equals the record now stored.
C15_UpdateInPlace ==
    itemLoaded =>
        \A id \in Ids(Store) : \A body \in Bodies : \A t \in ClockReads(now) :
            LET out == PutOutcome(heap[itemProducts], id, body, t)
                k == PositionOf(Store, id)
            IN  ValidInput(body) =>
                   /\ out.response.status = 200
                   /\ Len(out.products) = Len(Store)
                   /\ out.products[k].id = id
                   /\ Carries(out.products[k], body)
                   /\ \A j \in 1..Len(Store) : j # k => out.products[j] = Store[j]
                   /\ out.response.body = <<out.products[k]>>

\* An Update has replaced the fields of record 2, which stands between record
\* 1 and a created record, and another PUT handler for record 2 is suspended
\* at await request.json()
C15_Witness ==
    /\ Len(Store) >= 3
    /\ Store[1].id = 1
    /\ Store[2].id = 2 /\ Carries(Store[2], BodyB)
    /\ Store[3].id \in Ids(Store) \ SeedIds
    /\ BagIn(Handler("PUT", "json", 2), pending)

\* The collection without the record of this id
Without(products, id) ==
    LET Others(p) == p.id # id
    IN  SelectSeq(products, Others)

\* C16: a successful Delete(id) removes exactly the record with that id,
\* returns that record's value as it was immediately before removal, leaves
\* all other records unchanged and in their previous relative order, and
\* leaves the next-id counter unchanged.
C16_DeleteRemovesOne ==
    /\ [](itemLoaded =>
            \A idParam \in IdParams :
                LET id == ParseInt(idParam)
                    out == DeleteOutcome(heap[itemProducts], idParam)
                IN  ~IsNaN(id) /\ id.n \in Ids(Store) =>
                       /\ out.response =
                              Response(200, "", "Product deleted successfully",
                                       <<RecordWith(Store, id.n)>>)
                       /\ out.products = Without(Store, id.n)
                       /\ Len(out.products) = Len(Store) - 1)
    /\ [][ \A idParam \in IdParams :
               DeleteParams(idParam) =>
                  /\ UNCHANGED <<nextId, nextProductId>>
                  /\ Store' = Store \/ \E id \in Ids(Store) : Store' = Without(Store, id) ]_vars

\* Record 1 has been deleted from before record 2 and a record created and
\* updated since, and the handler of another DELETE is suspended at await
\* params
C16_Witness ==
    /\ deleted = {1}
    /\ Len(Store) >= 2
    /\ Store[1].id = 2
    /\ Store[2].id \in Ids(Store) \ SeedIds /\ Carries(Store[2], BodyB)
    /\ nextId = Store[Len(Store)].id + 1
    /\ BagIn(Handler("DELETE", "params", 0), pending)

\* C17 as claimed: every record of the collection has updatedAt >= createdAt,
\* the createdAt of a record never changes after creation, and the record
\* returned by a successful Create has createdAt equal to updatedAt.
C17_Original ==
    /\ [](\A k \in 1..Len(Store) : Store[k].updatedAt >= Store[k].createdAt)
    /\ [][ /\ \A id \in Ids(Store) \cap Ids(Store') :
                RecordWith(Store', id).createdAt = RecordWith(Store, id).createdAt
           /\ \A body \in Bodies : \A t1 \in ClockReads(now) : \A t2 \in ClockReads(t1) :
                PostJsonAt(body, t1, t2) /\ ValidInput(body) =>
                   LET out == PostOutcome(heap[listProducts], nextId, body, t1, t2)
                   IN  /\ Store'[Len(Store')] = out.response.body[1]
                       /\ out.response.body[1].createdAt = out.response.body[1].updatedAt ]_vars

\* The images a request can carry for 'no image'
NoImages == {Undefined, Null, Str("")}

\* C18: the image field of a stored record is either unset or a non-empty
\* value: a Create or Update whose image is missing, null or the empty string
\* stores the record with image unset, and an Update without an image removes
\* an image the record previously had.
C18_ImageUnsetOrNonEmpty ==
    /\ \A k \in 1..Len(Store) : Store[k].image = Undefined \/ Truthy(Store[k].image)
    /\ listLoaded =>
          \A image \in NoImages : \A t1 \in ClockReads(now) : \A t2 \in ClockReads(t1) :
              LET out == PostOutcome(heap[listProducts], nextId,
                                     [BodyB EXCEPT !.image = image], t1, t2)
              IN  /\ out.response.status = 201
                  /\ out.products[Len(out.products)].image = Undefined
                  /\ out.response.body[1].image = Undefined
    /\ itemLoaded =>
          \A id \in Ids(Store) : \A image \in NoImages : \A t \in ClockReads(now) :
              LET out == PutOutcome(heap[itemProducts], id,
                                    [BodyB EXCEPT !.image = image], t)
              IN  /\ out.response.status = 200
                  /\ RecordWith(out.products, id).image = Undefined
                  /\ out.response.body[1].image = Undefined

\* Record 2, seeded with an image, has lost it to an Update without an image;
\* a record created with an empty image is stored with image unset, and one
\* created with an image keeps it
C18_Witness ==
    /\ 2 \in Ids(Store)
    /\ Carries(RecordWith(Store, 2), BodyA) /\ RecordWith(Store, 2).image = Undefined
    /\ \E k \in 1..Len(Store) :
         /\ Store[k].id \notin SeedIds
         /\ Store[k].image = BodyB.image
    /\ Len(created) >= 2

\* The messages of the validation, id and lookup failures
SpecificMessages ==
    {PostValidate(body) : body \in Bodies} \cup {PutValidate(body) : body \in Bodies}
        \cup {InvalidProductId.error, ProductNotFound.error}

\* C19: an unexpected failure inside a handler (request.json() rejecting) is
\* answered with status 500 and a generic message, one that no validation, id
\* or lookup failure uses, and the step in which the catch block answers
\* leaves the collection, the arrays of both route modules and the next-id
\* counter exactly as they were, whatever handlers are suspended around it.
C19_UnexpectedFailure ==
    /\ [](\A failure \in {PostFailure, PutFailure, DeleteFailure} :
              /\ failure.status = 500
              /\ failure.error \notin SpecificMessages
              /\ failure.body = <<>>)
    /\ [][ (PostJsonFails \/ \E id \in PendingIds : PutJsonFails(id)) =>
              /\ Store' = Store
              /\ UNCHANGED <<heap, moduleVars>>
              /\ BagCardinality(pending') = BagCardinality(pending) - 1 ]_vars

\* A POST handler and a PUT handler for a record deleted since are suspended
\* at await request.json(), where the parse can fail, after a Create has
\* moved the counter
C19_Witness ==
    /\ BagIn(Handler("POST", "json", 0), pending)
    /\ BagIn(Handler("PUT", "json", 2), pending)
    /\ 2 \in deleted
    /\ created # <<>>
    /\ nextId > FirstProductId

-----------------------------------------------------------------------------

\* C20 as claimed: after logout, once the pending effects have run, the cart
\* of CartProvider is null, and it stays null until the next login, also when
\* the response to a request issued before the logout arrives after it.
C20_Original ==
    ~authLoading /\ ~isAuthenticated /\ ~effectDue => cart = Null

-----------------------------------------------------------------------------

\* C21 as claimed: on the checkout page, for one cart at most one order is
\* ever placed through POST /api/Order/place, over every sequence of clicks
\* on 'Proceed to Payment', also when the order is created, the creation of
\* the payment intent fails and the user clicks again.
C21_Original ==
    Len(placed) <= 1

\* The requests of CartProvider awaiting their response
CartRequests == {r \in BagToSet(requests) : r.kind \in Mutations \cup {"fetchCart"}}

\* C22 as claimed: whenever the user is authenticated and no cart request is
\* in flight (and the effect of the last commit has run), a non-null cart held
\* by CartProvider was returned by a request made with the current token: it
\* is the cart of the user the token belongs to, also after the token changed
\* from one user's to another's.
C22_Original ==
    ~authLoading /\ isAuthenticated /\ ~effectDue /\ CartRequests = {} =>
        cart = Null \/ cart \in CartData(token)

\* The effect of CartProvider calls fetchCart in this step
AutomaticFetch == CartEffect /\ requests' # requests

\* C23: after authentication the automatic cart fetch of CartProvider cannot
\* loop.  A fetchCart that completes, with an OK response, a response that is
\* not OK or a network error, leaves hasInitialized true and isLoading false;
\* while the token stays the same hasInitialized stays true; the effect
\* issues a fetch only when hasInitialized is false, so none is issued after
\* one has completed while the token stays the same; and isLoading is
\* eventually false.
C23_NoFetchLoop ==
    /\ [][ /\ FetchCartSettles => hasInitialized' /\ ~isLoading'
           /\ AutomaticFetch => ~hasInitialized /\ isLoading'
           /\ hasInitialized /\ isAuthenticated /\ token' = token =>
                 hasInitialized' /\ ~AutomaticFetch ]_vars
    /\ (isLoading ~> ~isLoading)

\* The automatic fetch of a session has completed with a response that was not
\* OK, the effect has run since and has issued no other fetch
C23_Witness ==
    /\ isAuthenticated
    /\ hasInitialized
    /\ cart = Null
    /\ ~isLoading
    /\ ~effectDue
    /\ requests = EmptyBag

-----------------------------------------------------------------------------

\* The path segment of a one-digit id
Segment(id) == <<SubSeq("0123456789", id + 1, id + 1)>>

\* The ids of the records POST has created that are in the collection
CreatedIds == Ids(Store) \ SeedIds

\* C24: the GET/POST route module and the PUT/DELETE route module always
\* operate on the same collection, whichever of them is initialised first.
\* Both refer to the one array global.globalProducts refers to; before any
\* Create or Delete it holds exactly the seed records 1 and 2, and the counter
\* of the POST module is 3; a product created by POST is updated and deleted
\* through the other module; and after every step of a PUT or DELETE handler
\* the next GET answers with the collection as that handler left it.
C24_OneCollection ==
    /\ [](/\ listLoaded => listProducts = globalProducts
          /\ itemLoaded => itemProducts = globalProducts
          /\ (listLoaded \/ itemLoaded) /\ created = <<>> /\ deleted = {} =>
                Ids(Store) = {1, 2} /\ Len(Store) = 2
          /\ listLoaded /\ created = <<>> =>
                nextId = FirstProductId /\ nextProductId = FirstProductId
          /\ itemLoaded =>
                \A id \in CreatedIds :
                    /\ \A t \in ClockReads(now) :
                          LET out == PutOutcome(heap[itemProducts], id, BodyB, t)
                          IN  /\ out.response.status = 200
                              /\ Carries(RecordWith(out.products, id), BodyB)
                    /\ LET out == DeleteOutcome(heap[itemProducts], Segment(id))
                       IN  /\ out.response.status = 200
                           /\ id \notin Ids(out.products))
    /\ [][ listLoaded /\ itemLoaded =>
              /\ GetOutcome(heap'[listProducts]).body = heap'[itemProducts]
              /\ GetOutcome(heap'[listProducts]).body = Store' ]_vars

\* Both modules are loaded; of the two products POST created, the first has
\* been deleted and the second updated through the item module, and a seed
\* record has been deleted too
C24_Witness ==
    /\ listLoaded /\ itemLoaded
    /\ created = <<3, 4>>
    /\ deleted = {1, 3}
    /\ Ids(Store) = {2, 4}
    /\ Carries(RecordWith(Store, 4), BodyB)
    /\ RecordWith(Store, 4).updatedAt > RecordWith(Store, 4).createdAt

-----------------------------------------------------------------------------

\* Both items of the session are in localStorage
SessionStored == localStorage.auth_token # Null /\ localStorage.auth_user # Null

C26_MutationResult ==
    /\ [](\A t \in Tokens : \A data \in CartData(t) :
            \A response \in {OkResponse(data), NotOkResponse, NetworkError} :
                LET out == MutationOutcome(cart, response)
                IN  /\ ~response.ok \/ response.rejected =>
                          ~out.returns /\ out.cart = cart
                    /\ out.returns => response.ok /\ out.cart = response.data
                    /\ ~MutationRefusal(cart).returns
                    /\ MutationRefusal(cart).cart = cart)
    /\ [][ /\ \A kind \in Mutations :
                MutationCall(kind) /\ ~isAuthenticated =>
                    MutationRefused /\ requests' = requests /\ cart' = cart
           /\ \A kind \in Mutations : \A t \in Tokens :
                MutationFails(kind, t) => cart' = cart
           /\ \A kind \in Mutations : \A t \in Tokens : \A data \in CartData(t) :
                MutationOk(kind, t, data) => cart' = data ]_vars

\* The user is signed in with the cart of an OK response in the provider and
\* two mutations awaiting their responses
C26_Witness ==
    /\ isAuthenticated
    /\ cart # Null /\ cart.items # <<>>
    /\ hasInitialized
    /\ ~isLoading
    /\ \E kind \in Mutations : BagIn(Request(kind, token), requests)
    /\ BagCardinality(requests) = 2
    /\ CartRequests = BagToSet(requests)

\* C27: each submission of the CheckoutForm made while the payment widget is
\* ready invokes exactly one of onSuccess and onError, exactly once, and the
\* form's isLoading flag is false again afterwards in every outcome
\* (confirmed, card or validation error, other error, thrown exception); a
\* submission made while the widget is not ready invokes neither and changes
\* no state.
C27_OneCallback ==
    /\ [](/\ Len(callbacks) <= 1
          /\ confirming => callbacks = <<>> /\ widgetReady
          /\ checkoutStep = "open" => (formLoading <=> confirming))
    /\ [][ /\ handleSubmit /\ ~widgetReady => UNCHANGED vars
           /\ handleSubmit /\ widgetReady =>
                ~confirming /\ confirming' /\ formLoading' /\ callbacks' = <<>>
           /\ PaymentConfirmed => callbacks' = <<"onSuccess">>
           /\ (\/ PaymentThrows
               \/ \E type \in ErrorTypes : \E text \in ErrorMessages :
                    PaymentError(type, text)) => callbacks' = <<"onError">>
           /\ confirming /\ ~confirming' =>
                /\ Len(callbacks') = 1
                /\ callbacks'[1] \in {"onSuccess", "onError"}
                /\ checkoutStep = "open" => ~formLoading'
           /\ callbacks' # callbacks =>
                \/ handleSubmit /\ widgetReady
                \/ confirming /\ ~confirming' ]_vars

\* A second submission of the form shown has settled with a declined card:
\* onError was invoked once, the form shows the error and is not loading
C27_Witness ==
    /\ checkoutStep = "open"
    /\ widgetReady
    /\ ~confirming
    /\ ~formLoading
    /\ callbacks = <<"onError">>
    /\ formMessage = "Your card was declined."
    /\ toast = ShowToast("Payment failed: Your card was declined.", "error")
    /\ redirectDue

\* The offered changes that can follow one another from status, at most
\* fuel of them counted
RECURSIVE OfferedSteps(_, _)
OfferedSteps(status, fuel) ==
    IF fuel = 0 \/ getNextStatuses(status) = <<>> THEN 0
    ELSE 1 + OfferedSteps(Str(getNextStatuses(status)[1].value), fuel - 1)

\* C28: the status changes the orders page offers form one chain Pending ->
\* Paid -> Shipped -> Delivered -> Cancelled: every status offers at most
\* one next status, Cancelled and unknown statuses offer none, so any
\* sequence of offered changes ends after at most four steps; the numbers 0..4
\* and the status names are treated identically; and 'Complete Payment' is
\* offered for exactly the orders for which 'Mark as Paid' is offered.
C28_Original ==
    /\ \A n \in 1..Len(StatusNames) :
          /\ getNextStatuses(Num(n - 1)) = getNextStatuses(Str(StatusNames[n]))
          /\ getStatusText(Num(n - 1)) = getStatusText(Str(StatusNames[n]))
          /\ getStatusText(Str(StatusNames[n])) = StatusNames[n]
          /\ getNextStatuses(Str(StatusNames[n])) =
                IF n < Len(StatusNames)
                THEN <<StatusOption(StatusNames[n + 1], getNextStatuses(Num(n - 1))[1].label)>>
                ELSE <<>>
    /\ \A k \in 1..Len(orders) :
          /\ Len(getNextStatuses(orders[k])) <= 1
          /\ getStatusText(orders[k]) \in {"Cancelled", "Unknown"} =>
                getNextStatuses(orders[k]) = <<>>
          /\ OfferedSteps(orders[k], 5) <= 4
          /\ "Complete Payment" \in Range(Buttons(orders[k])) <=>
                "Mark as Paid" \in Range(Buttons(orders[k]))

\* The sum of the quantities of items, from the last item back
RECURSIVE QuantitySum(_)
QuantitySum(items) ==
    IF Len(items) = 0 THEN 0
    ELSE items[Len(items)].quantity + QuantitySum(SubSeq(items, 1, Len(items) - 1))

\* The sum of price x quantity over items, from the last item back
RECURSIVE AmountSum(_)
AmountSum(items) ==
    IF Len(items) = 0 THEN 0
    ELSE (items[Len(items)].price * items[Len(items)].quantity)
            + AmountSum(SubSeq(items, 1, Len(items) - 1))

\* C29: the cart totals are pure derived state: for every cart,
\* getTotalItems equals the sum of the quantities of its items and
\* getTotalPrice equals the sum of price x quantity over its items; both are
\* 0 when the cart is null or has no items, and neither changes the cart.
C29_Totals ==
    /\ [](/\ cart # Null =>
                /\ getTotalItems(cart) = QuantitySum(cart.items)
                /\ getTotalPrice(cart) = AmountSum(cart.items)
          /\ (cart = Null \/ cart.items = <<>>) =>
                getTotalItems(cart) = 0 /\ getTotalPrice(cart) = 0)
    /\ [][ RenderTotals =>
             /\ cart' = cart
             /\ summary'.items = getTotalItems(cart)
             /\ summary'.price = getTotalPrice(cart)
             /\ cart # Null =>
                   /\ summary'.items = QuantitySum(cart.items)
                   /\ summary'.price = AmountSum(cart.items)
             /\ (cart = Null \/ cart.items = <<>>) =>
                   summary' = [items |-> 0, price |-> 0] ]_vars

\* The totals of a cart of two items of different prices and quantities
\* have been rendered
C29_Witness ==
    /\ cart # Null
    /\ cart.items = <<PricedItem(999, 2), PricedItem(2500, 3)>>
    /\ summary = [items |-> 5, price |-> 9498]

====
